---- MODULE Spec2Model ----
(***************************************************************************)
(* Signal / trade-state engine of the sector rotation dashboard.           *)
(*                                                                         *)
(*   src/js/timeline.js  RRGView: _computeStreak, _computeTradeStates,     *)
(*                       _isSignalActif, _signalStage                      *)
(*   src/js/app.js       computeTradeLogSync                               *)
(*                                                                         *)
(* Conventions.  A JavaScript value that may be null/undefined is a        *)
(* sequence of length <= 1: Null == <<>> and Some(x) == <<x>>.  JavaScript  *)
(* arrays are 0-based; At(arr, i) reads arr[i] and yields Null outside the *)
(* array, as `arr[i] != null` is false for undefined.  The sign of a flow  *)
(* value or of a sector ma50 is all the code reads, so they are small      *)
(* integers; a flow value is in tenths (-1 is -0.1, which is above the     *)
(* -0.15 floor of the stricter entry variant).  A stock ma50 is in         *)
(* hundredths (-8 is -0.08).  Prices are integers and price arithmetic is  *)
(* exact: p >= e * 1.05 is p * 100 >= e * 105, and a return p/e - 1 is the *)
(* fraction (p - e)/e; the rounding of floating point is not modelled.     *)
(***************************************************************************)
EXTENDS Integers, Sequences, FiniteSets, TLC

VARIABLES
    history,        \* data/history.json as the server delivers it
    data,           \* RRGView.data (NoData until loadData has the response)
    pc,             \* "new" | "scanning" | "ready": position of loadData
    scan,           \* locals of the running _computeTradeStates
    tradeStates,    \* RRGView._tradeStates: etf -> array of Null | state
    query,          \* the last call of the query functions and its results
    stockFiles,     \* data/sectors/<etf>_history.json as the server delivers them
    allStockHistories,  \* app.js allStockHistories: etf -> stock history
    tradeLog,       \* app.js tradeLog
    tradeLogReady,  \* app.js tradeLogReady
    logScan,        \* locals of the running computeTradeLogSync
    currentIdx,     \* RRGView.currentIdx
    signals,        \* the last call of getSignals and the list it returned
    positions,      \* the list the last call of _getActivePositions returned
    screener,       \* allStocks of the screener and the signal badges rendered
    earlier,        \* the results of the run before a repeated computation
    timelineReady,  \* app.js timelineReady
    timelinePlaying,    \* app.js timelinePlaying
    timelineInterval,   \* app.js timelineInterval: Null or the id of a timer
    timers,         \* the interval timers that are armed in the browser
    sliderValue,    \* value of the timeline slider
    dom,            \* the index each per-index view was last rendered for
    fetches,        \* the fetches in flight (stock histories, sector files)
    listeners,      \* the handlers of setupTimeline are registered
    tradeData,      \* the trade log handed to the view by setTradeData
    signalFilterActive, \* part_000 signalFilterActive
    hiddenSectors,  \* RRGView.hiddenSectors
    sectorMode,     \* RRGView.sectorMode: Null or the sector shown
    currentView,    \* part_000 currentView: "graph" | "screener"
    graph           \* RotationGraph: mode, cameras, sector data, pending work

sectorVars == <<history, data, pc, scan, tradeStates, query>>
logVars == <<stockFiles, allStockHistories, tradeLog, tradeLogReady, logScan>>
callVars == <<currentIdx, signals, positions, screener, earlier>>
playVars == <<timelineReady, timelinePlaying, timelineInterval, timers, sliderValue>>
setupVars == <<dom, fetches, listeners, tradeData>>
filterVars == <<signalFilterActive, hiddenSectors, sectorMode, currentView>>
uiVars == <<playVars, setupVars, filterVars, graph>>
vars == <<history, data, pc, scan, tradeStates, query,
          stockFiles, allStockHistories, tradeLog, tradeLogReady, logScan,
          currentIdx, signals, positions, screener, earlier,
          timelineReady, timelinePlaying, timelineInterval, timers, sliderValue,
          dom, fetches, listeners, tradeData,
          signalFilterActive, hiddenSectors, sectorMode, currentView, graph>>

----------------------------------------------------------------------------
(* Bounds *)

\* Number of dates of history.json.
NDates == 19

----------------------------------------------------------------------------
(* Values *)

Null == <<>>
Some(x) == <<x>>
Val(v) == v[1]

\* arr[i] of a 0-based JavaScript array; undefined reads as Null.
At(arr, i) == IF i >= 0 /\ i < Len(arr) THEN arr[i + 1] ELSE Null

\* this.data === null
NoData == [loaded |-> FALSE, dates |-> 0, sectors |-> <<>>]

----------------------------------------------------------------------------
(* Inputs: the sector series of history.json *)

Etfs == {"XLK"}
\* A sector id that history.json does not hold.
UnknownEtf == "ZZZ"

\* What interrupts a run of negative flow values, and a below-MA50 run.
FlowBreaks == {Null, Some(0), Some(1)}
Ma50Breaks == {Null, Some(0), Some(1)}

\* Series of n values, all negative but for at most one interruption.
OneBreakSeries(n, breaks) ==
    { [i \in 1..n |-> IF i = p THEN b ELSE Some(-1)] : p \in 0..n, b \in breaks }

\* A sector of history.json: its flow array c and its ma50 array, either of
\* which the file may omit.
SectorSeries ==
    { [hasC |-> TRUE, c |-> cs, hasMa50 |-> TRUE, ma50 |-> ms] :
        cs \in OneBreakSeries(NDates, FlowBreaks),
        ms \in OneBreakSeries(NDates, Ma50Breaks) }
    \cup { [hasC |-> FALSE, c |-> <<>>, hasMa50 |-> TRUE, ma50 |-> ms] :
        ms \in OneBreakSeries(NDates, {Null}) }
    \cup { [hasC |-> TRUE, c |-> cs, hasMa50 |-> FALSE, ma50 |-> <<>>] :
        cs \in OneBreakSeries(NDates, {Null}) }

Histories ==
    { [loaded |-> TRUE, dates |-> NDates, sectors |-> ss] :
        ss \in [Etfs -> SectorSeries] }

----------------------------------------------------------------------------
(* _computeStreak *)

\* s.c[i] != null && s.c[i] < 0, and the same test with the zero included.
IsOutflow_OrZero(v) == v # Null /\ Val(v) <= 0
IsOutflow(v) == v # Null /\ Val(v) < 0

RECURSIVE StreakLoop(_, _, _)
StreakLoop(c, i, streak) ==
    IF i >= 0 /\ IsOutflow(At(c, i))
    THEN StreakLoop(c, i - 1, streak + 1)
    ELSE streak

ComputeStreak(etf, idx) ==
    IF ~data.loaded \/ etf \notin DOMAIN data.sectors THEN 0
    ELSE IF ~data.sectors[etf].hasC THEN 0
    ELSE StreakLoop(data.sectors[etf].c, idx, 0)

----------------------------------------------------------------------------
(* _computeTradeStates *)

\* const ma50 = s.ma50 && s.ma50[i] != null ? s.ma50[i] : null
SectorMa50(etf, i) ==
    IF data.sectors[etf].hasMa50 THEN At(data.sectors[etf].ma50, i) ELSE Null

\* const belowMA50 = ma50 !== null && ma50 < 0, and a test that takes a
\* missing value for a value below the moving average.
BelowMA50_NullIsBelow(etf, i) ==
    SectorMa50(etf, i) = Null \/ Val(SectorMa50(etf, i)) < 0
BelowMA50(etf, i) == SectorMa50(etf, i) # Null /\ Val(SectorMa50(etf, i)) < 0

InTradeState(max) == [inTrade |-> TRUE, maxStreak |-> max]

\* if (streak >= 15 && belowMA50), and the stricter entry of the other variant
\* (10 days, with the flow floor left out).
EntrySignal_TenDays(streak, below) == streak >= 10 /\ below
\* An entry that needs more than 15 days.
EntrySignal_Above15(streak, below) == streak > 15 /\ below
EntrySignal(streak, below) == streak >= 15 /\ below

\* if (!belowMA50), and an exit that also fires when the streak is broken.
ExitSignal_StreakBroken(streak, below) == ~below \/ streak = 0
ExitSignal(streak, below) == ~below

\* if (streak > maxStreak) maxStreak = streak, and the same without the test.
RunningMax_Overwrite(maxStreak, streak) == streak
RunningMax(maxStreak, streak) == IF streak > maxStreak THEN streak ELSE maxStreak

\* One iteration of the loop over the dates: the locals after index i.
TradeStep(l, etf, i) ==
    LET streak == ComputeStreak(etf, i)
        below == BelowMA50(etf, i)
    IN  IF l.inTrade
        THEN IF ExitSignal(streak, below)
             THEN [l EXCEPT !.inTrade = FALSE, !.maxStreak = 0,
                            !.states = Append(@, Null), !.i = i + 1]
             ELSE LET m == RunningMax(l.maxStreak, streak)
                  IN  [l EXCEPT !.maxStreak = m,
                                !.states = Append(@, Some(InTradeState(m))),
                                !.i = i + 1]
        ELSE IF EntrySignal(streak, below)
             THEN [l EXCEPT !.inTrade = TRUE, !.maxStreak = streak,
                            !.states = Append(@, Some(InTradeState(streak))),
                            !.i = i + 1]
             ELSE [l EXCEPT !.states = Append(@, Null), !.i = i + 1]

\* The locals at the top of the loop over the dates of one sector.
ScanStart(etfs) ==
    [etfs |-> etfs, i |-> 0, inTrade |-> FALSE, maxStreak |-> 0, states |-> <<>>]

NoScan == [etfs |-> <<>>, i |-> 0, inTrade |-> FALSE, maxStreak |-> 0, states |-> <<>>]

\* for (const etf in this.data.sectors): the keys in the file's order.
RECURSIVE SeqOfSet(_)
SeqOfSet(S) ==
    IF S = {} THEN <<>>
    ELSE LET x == CHOOSE y \in S : TRUE
         IN  <<x>> \o SeqOfSet(S \ {x})

----------------------------------------------------------------------------
(* _isSignalActif, _signalStage *)

\* this._tradeStates && this._tradeStates[etf] && this._tradeStates[etf][idx]
TradeStateAt(etf, idx) ==
    IF etf \in DOMAIN tradeStates THEN At(tradeStates[etf], idx) ELSE Null

\* ts && ts.inTrade
InTradeAt(etf, idx) ==
    TradeStateAt(etf, idx) # Null /\ Val(TradeStateAt(etf, idx)).inTrade

IsSignalActif(etf, idx) ==
    IF InTradeAt(etf, idx) THEN TRUE
    ELSE IF ComputeStreak(etf, idx) < 15 THEN FALSE
    ELSE BelowMA50(etf, idx)

\* Variants of _signalStage: construction from 12 days on, and surveillance
\* only while the sector is below its MA50.
SignalStage_Construction12(etf, idx) ==
    IF InTradeAt(etf, idx) THEN Some("actif")
    ELSE LET streak == ComputeStreak(etf, idx)
         IN  IF streak >= 15
             THEN IF BelowMA50(etf, idx) THEN Some("actif") ELSE Some("construction")
             ELSE IF streak >= 12 THEN Some("construction")
             ELSE IF streak >= 3 THEN Some("surveillance")
             ELSE Null

SignalStage_SurveillanceBelowMA(etf, idx) ==
    IF InTradeAt(etf, idx) THEN Some("actif")
    ELSE LET streak == ComputeStreak(etf, idx)
         IN  IF streak >= 15
             THEN IF BelowMA50(etf, idx) THEN Some("actif") ELSE Some("construction")
             ELSE IF streak >= 10 THEN Some("construction")
             ELSE IF streak >= 3 /\ BelowMA50(etf, idx) THEN Some("surveillance")
             ELSE Null

\* _signalStage with the surveillance threshold of the screener (5 days).
SignalStage_SurveillanceFromFive(etf, idx) ==
    IF InTradeAt(etf, idx) THEN Some("actif")
    ELSE LET streak == ComputeStreak(etf, idx)
         IN  IF streak >= 15
             THEN IF BelowMA50(etf, idx) THEN Some("actif") ELSE Some("construction")
             ELSE IF streak >= 10 THEN Some("construction")
             ELSE IF streak >= 5 THEN Some("surveillance")
             ELSE Null

\* "actif", "construction", "surveillance", or null
SignalStage(etf, idx) ==
    IF InTradeAt(etf, idx) THEN Some("actif")
    ELSE LET streak == ComputeStreak(etf, idx)
         IN  IF streak >= 15
             THEN IF BelowMA50(etf, idx) THEN Some("actif") ELSE Some("construction")
             ELSE IF streak >= 10 THEN Some("construction")
             ELSE IF streak >= 3 THEN Some("surveillance")
             ELSE Null

----------------------------------------------------------------------------
(* computeTradeLogSync *)

\* The locals of computeTradeLogSync: work is the list of the <<etf, ticker>>
\* pairs still to scan, its head being the pair of the running inner loop.
NoLogScan ==
    [active |-> FALSE, work |-> <<>>, i |-> 0, inTrade |-> FALSE,
     entryIdx |-> Null, entryPrice |-> Null]

\* tradeLog = [] at the top of computeTradeLogSync, and a start that keeps
\* the trades of the run before.
LogReset_Keep(log) == log
LogReset(log) == <<>>

\* let inTrade = false; let entryIdx = null; let entryPrice = null; i = 0
LogScanStart(work) ==
    [active |-> TRUE, work |-> work, i |-> 0, inTrade |-> FALSE,
     entryIdx |-> Null, entryPrice |-> Null]

\* The arrays of a stock of the running scan.
StockOf(etf, ticker) == allStockHistories[etf].stocks[ticker]

\* The pairs the two outer loops reach, in their order: a sector without
\* trade states or stock history, and a stock without close or ma50 array,
\* are skipped (`continue`).
RECURSIVE PairsOf_NoSkip(_, _)
PairsOf_NoSkip(etf, tickers) ==
    IF tickers = <<>> THEN <<>>
    ELSE << <<etf, Head(tickers)>> >> \o PairsOf_NoSkip(etf, Tail(tickers))

RECURSIVE PairsOf(_, _)
PairsOf(etf, tickers) ==
    IF tickers = <<>> THEN <<>>
    ELSE LET sd == StockOf(etf, Head(tickers))
         IN  (IF sd.hasClose /\ sd.hasMa50 THEN << <<etf, Head(tickers)>> >> ELSE <<>>)
             \o PairsOf(etf, Tail(tickers))

RECURSIVE LogWork(_)
LogWork(etfs) ==
    IF etfs = <<>> THEN <<>>
    ELSE LET etf == Head(etfs)
         IN  (IF etf \in DOMAIN tradeStates /\ etf \in DOMAIN allStockHistories
              THEN PairsOf(etf, SeqOfSet(DOMAIN allStockHistories[etf].stocks))
              ELSE <<>>)
             \o LogWork(Tail(etfs))

\* curPrice >= entryPrice * 1.05, and the same test without the 5%.
TakeProfit_NoLoss(curPrice, entryPrice) == curPrice >= entryPrice
TakeProfit(curPrice, entryPrice) == curPrice * 100 >= entryPrice * 105

\* sd.ma50[i] != null && sd.ma50[i] <= -0.08 (hundredths).
DeepDiscount(v) == v # Null /\ Val(v) <= -8

\* curPrice / entryPrice - 1, as an exact fraction.
Return(curPrice, entryPrice) == [num |-> curPrice - entryPrice, den |-> entryPrice]

\* The object pushed at the take profit (the sector name and colour and the
\* two date strings, which are copied for display, are left out).
ClosedTrade(etf, ticker, entryIdx, entryPrice, i, curPrice) ==
    [ticker |-> ticker, etf |-> etf, signalIdx |-> entryIdx - 1,
     entryIdx |-> entryIdx, exitIdx |-> Some(i),
     entryPrice |-> entryPrice, exitPrice |-> Some(curPrice),
     ret |-> Some(Return(curPrice, entryPrice)), days |-> Some(i - entryIdx),
     ongoing |-> FALSE]

\* The object pushed for a trade still open at the end of the scan.
OngoingTrade(etf, ticker, entryIdx, entryPrice) ==
    [ticker |-> ticker, etf |-> etf, signalIdx |-> entryIdx - 1,
     entryIdx |-> entryIdx, exitIdx |-> Null,
     entryPrice |-> entryPrice, exitPrice |-> Null,
     ret |-> Null, days |-> Null, ongoing |-> TRUE]

\* const isIn = states[i] && states[i].inTrade;
\* const wasIn = i > 0 && states[i - 1] && states[i - 1].inTrade;
\* and the entry test without the edge detection.
SectorSignal_NoEdge(states, i) ==
    At(states, i) # Null /\ Val(At(states, i)).inTrade
SectorSignal(states, i) ==
    /\ At(states, i) # Null /\ Val(At(states, i)).inTrade
    /\ ~(i > 0 /\ At(states, i - 1) # Null /\ Val(At(states, i - 1)).inTrade)

\* const ei = i + 1, and an entry at the close of the signal day.
EntryIndex_SameDay(i) == i
EntryIndex(i) == i + 1

\* inTrade = false; entryIdx = null, and an exit that leaves the trade open.
AfterExit_StillOpen(l, i) == [l EXCEPT !.i = i + 1]
AfterExit(l, i) == [l EXCEPT !.inTrade = FALSE, !.entryIdx = Null, !.i = i + 1]

\* One iteration of the loop over the dates of a stock: the locals and the
\* trade log after index i.
LogStep(l, log, i) ==
    LET etf == Head(l.work)[1]
        ticker == Head(l.work)[2]
        states == tradeStates[etf]
        sd == StockOf(etf, ticker)
    IN  IF l.inTrade
        THEN LET curPrice == At(sd.close, i)
                 entryPrice == Val(l.entryPrice)
             IN  IF curPrice # Null /\ entryPrice > 0
                    /\ TakeProfit(Val(curPrice), entryPrice)
                 THEN [l |-> AfterExit(l, i),
                       log |-> Append(log, ClosedTrade(etf, ticker, Val(l.entryIdx),
                                                       entryPrice, i, Val(curPrice)))]
                 ELSE [l |-> [l EXCEPT !.i = i + 1], log |-> log]
        ELSE IF SectorSignal(states, i) /\ DeepDiscount(At(sd.ma50, i))
             THEN LET ei == EntryIndex(i)
                  IN  IF ei < Len(sd.close) /\ At(sd.close, ei) # Null
                      THEN [l |-> [l EXCEPT !.inTrade = TRUE, !.entryIdx = Some(ei),
                                           !.entryPrice = At(sd.close, ei),
                                           !.i = i + 1],
                            log |-> log]
                      ELSE [l |-> [l EXCEPT !.i = i + 1], log |-> log]
             ELSE [l |-> [l EXCEPT !.i = i + 1], log |-> log]

\* i < states.length && i < sd.ma50.length
LogLoopRuns(l) ==
    LET etf == Head(l.work)[1]
        ticker == Head(l.work)[2]
    IN  l.i < Len(tradeStates[etf]) /\ l.i < Len(StockOf(etf, ticker).ma50)

\* if (inTrade && entryIdx != null) tradeLog.push({... ongoing: true}), and
\* the end of a scan that drops the open trade.
LogAfterLoop_DropOpen(l, log) == log
LogAfterLoop(l, log) ==
    IF l.inTrade /\ l.entryIdx # Null
    THEN Append(log, OngoingTrade(Head(l.work)[1], Head(l.work)[2],
                                  Val(l.entryIdx), Val(l.entryPrice)))
    ELSE log

\* tradeLog.sort((a, b) => a.signalIdx - b.signalIdx): a stable sort.
RECURSIVE InsertTrade(_, _)
InsertTrade(sorted, t) ==
    IF sorted = <<>> THEN <<t>>
    ELSE IF Head(sorted).signalIdx <= t.signalIdx
         THEN <<Head(sorted)>> \o InsertTrade(Tail(sorted), t)
         ELSE <<t>> \o sorted

\* The log left in the order of the pushes.
SortBySignalIdx_Unsorted(log) == log
RECURSIVE SortBySignalIdx(_)
SortBySignalIdx(log) ==
    IF log = <<>> THEN <<>>
    ELSE InsertTrade(SortBySignalIdx(SubSeq(log, 1, Len(log) - 1)), log[Len(log)])

----------------------------------------------------------------------------
(* Inputs: the stock histories, and the sector series they are scanned with *)

Tickers == {"AAPL"}

\* A close array: 20 up to index 14, then null, 20 or 21 (21 is 20 * 1.05).
StockCloses ==
    { [i \in 1..NDates |-> IF i <= 15 THEN Some(20) ELSE t[i]] :
        t \in [16..NDates -> {Null, Some(20), Some(21)}] }

\* A stock ma50 array, in hundredths: -8 but for at most one index from 14
\* on, where it is null or -7.
StockMa50s ==
    { [i \in 1..NDates |-> IF i = p THEN d ELSE Some(-8)] :
        p \in {0} \cup 15..NDates, d \in {Null, Some(-7)} }

StockSeries ==
    { [hasClose |-> TRUE, close |-> cl, hasMa50 |-> TRUE, ma50 |-> ms] :
        cl \in StockCloses, ms \in StockMa50s }

StockFileSets ==
    { [e \in Etfs |-> [stocks |-> st]] : st \in [Tickers -> StockSeries] }

\* Sector series with a streak that reaches 15 at index 14 and never breaks,
\* below the MA50 but for at most one index from 14 on.
LogHistories ==
    { [loaded |-> TRUE, dates |-> NDates,
       sectors |-> [e \in Etfs |->
           [hasC |-> TRUE, c |-> [i \in 1..NDates |-> Some(-1)],
            hasMa50 |-> TRUE,
            ma50 |-> [i \in 1..NDates |-> IF i = p THEN Some(0) ELSE Some(-1)]]]] :
        p \in {0} \cup 15..NDates }

\* The locals of _computeTradeStates after the first n dates of a sector.
RECURSIVE ScanTo(_, _)
ScanTo(etf, n) ==
    IF n = 0 THEN ScanStart(<<etf>>)
    ELSE CHOOSE r \in { TradeStep(l, etf, n - 1) : l \in {ScanTo(etf, n - 1)} } : TRUE

----------------------------------------------------------------------------
(* Actions *)

NoQuery == [made |-> FALSE, etf |-> "", idx |-> 0, streak |-> 0, stage |-> Null,
            actif |-> FALSE]

\* The screener before loadAllStocks: allStocks = [], nothing rendered.
NoScreener == [loaded |-> FALSE, allStocks |-> <<>>, badges |-> <<>>]

\* No call of getSignals yet.
NoSignals == [made |-> FALSE, idx |-> 0, minDays |-> Null, list |-> <<>>]

\* No per-index view has been rendered and no panel is open.
NoViews == [label |-> Null, summary |-> Null, watching |-> Null,
            openPanel |-> "none", panel |-> Null]

\* loadAllStockHistories has not been called.
NoFetches == [started |-> FALSE, pending |-> {}]

\* Every fetch of loadAllStockHistories has settled.
FetchesSettled == [started |-> TRUE, pending |-> {}]

\* The page holds no RotationGraph.
NoGraph == Null

\* The module-level state of the page before init runs.
UiNew ==
    /\ timelineReady = FALSE
    /\ timelinePlaying = FALSE
    /\ timelineInterval = Null
    /\ timers = {}
    /\ sliderValue = 0
    /\ dom = NoViews
    /\ fetches = NoFetches
    /\ listeners = FALSE
    /\ tradeData = Null
    /\ signalFilterActive = FALSE
    /\ hiddenSectors = {}
    /\ sectorMode = Null
    /\ currentView = "graph"
    /\ graph = NoGraph

\* The page once setupTimeline has set the slider, the date label and the
\* index to the last date; f is the state of the stock-history fetches.
UiAtLastDate(f) ==
    /\ timelineReady = TRUE
    /\ timelinePlaying = FALSE
    /\ timelineInterval = Null
    /\ timers = {}
    /\ sliderValue = NDates - 1
    /\ dom = [NoViews EXCEPT !.label = Some(NDates - 1)]
    /\ fetches = f
    /\ listeners = FALSE
    /\ tradeData = Null
    /\ signalFilterActive = FALSE
    /\ hiddenSectors = {}
    /\ sectorMode = Null
    /\ currentView = "graph"
    /\ graph = NoGraph

Init ==
    /\ history \in Histories
    /\ data = NoData
    /\ pc = "new"
    /\ scan = NoScan
    /\ tradeStates = <<>>
    /\ query = NoQuery
    /\ stockFiles = <<>>
    /\ allStockHistories = <<>>
    /\ tradeLog = <<>>
    /\ tradeLogReady = FALSE
    /\ logScan = NoLogScan
    /\ currentIdx = 0
    /\ signals = NoSignals
    /\ positions = Null
    /\ screener = NoScreener
    /\ earlier = Null
    /\ UiNew

\* loadData: the response arrives, this.data is set and _computeTradeStates
\* starts with this._tradeStates = {}.
LoadData ==
    /\ pc = "new"
    /\ data' = history
    /\ tradeStates' = <<>>
    /\ scan' = ScanStart(SeqOfSet(DOMAIN history.sectors))
    /\ pc' = "scanning"
    /\ UNCHANGED <<history, query>>
    /\ UNCHANGED logVars
    /\ UNCHANGED callVars
    /\ UNCHANGED uiVars

\* One date of the current sector.
TradeStatesStep ==
    /\ pc = "scanning"
    /\ scan.etfs # <<>>
    /\ scan.i < data.dates
    /\ scan' = TradeStep(scan, Head(scan.etfs), scan.i)
    /\ UNCHANGED <<history, data, pc, tradeStates, query>>
    /\ UNCHANGED logVars
    /\ UNCHANGED callVars
    /\ UNCHANGED uiVars

\* this._tradeStates[etf] = states, then the next sector.
TradeStatesStore ==
    /\ pc = "scanning"
    /\ scan.etfs # <<>>
    /\ scan.i >= data.dates
    /\ tradeStates' = [e \in DOMAIN tradeStates \cup {Head(scan.etfs)} |->
                          IF e = Head(scan.etfs) THEN scan.states ELSE tradeStates[e]]
    /\ scan' = ScanStart(Tail(scan.etfs))
    /\ pc' = IF Tail(scan.etfs) = <<>> THEN "ready" ELSE "scanning"
    /\ UNCHANGED <<history, data, query>>
    /\ UNCHANGED logVars
    /\ UNCHANGED callVars
    /\ UNCHANGED uiVars

\* A caller (the chart, the sidebar, getSignals) asks for the streak, the stage
\* and the signal of a sector at a date index.  The functions called change
\* nothing, so a behaviour holds one call, made at any sector and index.
Query(etf, idx) ==
    /\ pc = "ready"
    /\ ~query.made
    /\ query' = [made |-> TRUE, etf |-> etf, idx |-> idx,
                 streak |-> ComputeStreak(etf, idx),
                 stage |-> SignalStage(etf, idx),
                 actif |-> IsSignalActif(etf, idx)]
    /\ UNCHANGED <<history, data, pc, scan, tradeStates>>
    /\ UNCHANGED logVars
    /\ UNCHANGED callVars
    /\ UNCHANGED uiVars

Next ==
    \/ LoadData
    \/ TradeStatesStep
    \/ TradeStatesStore
    \/ \E etf \in Etfs \cup {UnknownEtf}, idx \in 0..(NDates - 1) : Query(etf, idx)

Spec == Init /\ [][Next]_vars

----------------------------------------------------------------------------
(* The trade log: setupTimeline after loadData *)

\* The state in which setupTimeline awaits loadAllStockHistories, for a
\* sector series of LogHistories, and the stock files the server holds.
InitLog ==
    /\ history \in LogHistories
    /\ data = history
    /\ pc = "ready"
    /\ scan = ScanStart(<<>>)
    /\ tradeStates = [e \in DOMAIN data.sectors |-> ScanTo(e, data.dates).states]
    /\ query = NoQuery
    /\ stockFiles \in StockFileSets
    /\ allStockHistories = <<>>
    /\ tradeLog = <<>>
    /\ tradeLogReady = FALSE
    /\ logScan = NoLogScan
    /\ currentIdx = NDates - 1
    /\ signals = NoSignals
    /\ positions = Null
    /\ screener = NoScreener
    /\ earlier = Null
    /\ UiAtLastDate(FetchesSettled)

\* loadAllStockHistories: every fetch has settled; the files that came are
\* stored under their sector.
LoadAllStockHistories ==
    /\ pc = "ready"
    /\ fetches.started /\ fetches.pending = {}
    /\ ~logScan.active
    /\ ~tradeLogReady
    /\ allStockHistories = <<>>
    /\ allStockHistories' = stockFiles
    /\ UNCHANGED <<stockFiles, tradeLog, tradeLogReady, logScan>>
    /\ UNCHANGED sectorVars
    /\ UNCHANGED callVars
    /\ UNCHANGED uiVars

\* computeTradeLogSync starts: tradeLog = [], then the loops.
ComputeTradeLogStart ==
    /\ pc = "ready"
    /\ ~logScan.active
    /\ ~tradeLogReady
    /\ allStockHistories # <<>>
    /\ tradeLog' = LogReset(tradeLog)
    /\ logScan' = LogScanStart(LogWork(SeqOfSet(DOMAIN data.sectors)))
    /\ UNCHANGED <<stockFiles, allStockHistories, tradeLogReady>>
    /\ UNCHANGED sectorVars
    /\ UNCHANGED callVars
    /\ UNCHANGED uiVars

\* One date of the current stock.
TradeLogStep ==
    /\ logScan.active
    /\ logScan.work # <<>>
    /\ LogLoopRuns(logScan)
    /\ LET r == LogStep(logScan, tradeLog, logScan.i)
       IN  /\ logScan' = r.l
           /\ tradeLog' = r.log
    /\ UNCHANGED <<stockFiles, allStockHistories, tradeLogReady>>
    /\ UNCHANGED sectorVars
    /\ UNCHANGED callVars
    /\ UNCHANGED uiVars

\* The loop over the dates of a stock is over: its open trade is kept as
\* ongoing, and the next stock starts.
TradeLogStockEnd ==
    /\ logScan.active
    /\ logScan.work # <<>>
    /\ ~LogLoopRuns(logScan)
    /\ tradeLog' = LogAfterLoop(logScan, tradeLog)
    /\ logScan' = LogScanStart(Tail(logScan.work))
    /\ UNCHANGED <<stockFiles, allStockHistories, tradeLogReady>>
    /\ UNCHANGED sectorVars
    /\ UNCHANGED callVars
    /\ UNCHANGED uiVars

\* tradeLog.sort(...); tradeLogReady = true
TradeLogFinish ==
    /\ logScan.active
    /\ logScan.work = <<>>
    /\ tradeLog' = SortBySignalIdx(tradeLog)
    /\ tradeLogReady' = TRUE
    /\ logScan' = NoLogScan
    /\ UNCHANGED <<stockFiles, allStockHistories>>
    /\ UNCHANGED sectorVars
    /\ UNCHANGED callVars
    /\ UNCHANGED uiVars

NextLog ==
    \/ LoadAllStockHistories
    \/ ComputeTradeLogStart
    \/ TradeLogStep
    \/ TradeLogStockEnd
    \/ TradeLogFinish

SpecLog == InitLog /\ [][NextLog]_vars

----------------------------------------------------------------------------
(* Properties of the sector scan and of the query functions *)

\* The flow array of a sector as the file gives it (empty when omitted).
FlowOf(etf) ==
    IF data.loaded /\ etf \in DOMAIN data.sectors /\ data.sectors[etf].hasC
    THEN data.sectors[etf].c ELSE <<>>

Negative(v) == v # Null /\ Val(v) < 0

\* Length of the run of negative flow values that ends at idx: the number of
\* start indices k <= idx from which every value up to idx is negative.
NegativeRun(etf, idx) ==
    Cardinality({ k \in 0..idx : \A j \in k..idx : Negative(At(FlowOf(etf), j)) })

\* The ma50 value of a sector at an index, Null when it has none.
Ma50Of(etf, idx) ==
    IF data.loaded /\ etf \in DOMAIN data.sectors /\ data.sectors[etf].hasMa50
    THEN At(data.sectors[etf].ma50, idx) ELSE Null

\* The step of _computeTradeStates over index scan.i of sector Head(scan.etfs).
ScanStepTaken ==
    /\ pc = "scanning"
    /\ scan.etfs # <<>>
    /\ scan'.etfs = scan.etfs
    /\ scan'.i = scan.i + 1

\* C1: a sector that is OUT when index i is processed gets state {inTrade: true}
\* at i exactly when its streak at i is at least 15 and its ma50 at i is
\* non-null and negative, and null otherwise; the size of the flow values
\* plays no part.
C1_EntryRule ==
    [][ (ScanStepTaken /\ ~scan.inTrade) =>
          LET etf == Head(scan.etfs)
              i == scan.i
              entry == NegativeRun(etf, i) >= 15 /\ Negative(Ma50Of(etf, i))
          IN  /\ scan'.inTrade = entry
              /\ Len(scan'.states) = i + 1
              /\ IF entry
                 THEN At(scan'.states, i) # Null /\ Val(At(scan'.states, i)).inTrade
                 ELSE At(scan'.states, i) = Null ]_vars

\* C1 witness: the scan has just entered a trade at index scan.i - 1.
C1_Witness ==
    /\ pc = "scanning"
    /\ scan.inTrade
    /\ scan.i >= 1
    /\ At(scan.states, scan.i - 1) # Null
    /\ At(scan.states, scan.i - 2) = Null

\* C2: a sector that is IN when index i is processed stays IN exactly when its
\* ma50 at i is non-null and negative; otherwise it leaves and the state at
\* i is null.  The flow values take no part, so a broken streak ends nothing.
C2_ExitRule ==
    [][ (ScanStepTaken /\ scan.inTrade) =>
          LET etf == Head(scan.etfs)
              i == scan.i
              below == Negative(Ma50Of(etf, i))
          IN  /\ scan'.inTrade = below
              /\ (At(scan'.states, i) # Null) = below ]_vars

\* C2 witness: the sector has just left a trade during which its flow value
\* was not negative at some index.
C2_Witness ==
    /\ pc = "scanning"
    /\ scan.etfs # <<>>
    /\ ~scan.inTrade
    /\ scan.i >= 2
    /\ At(scan.states, scan.i - 1) = Null
    /\ At(scan.states, scan.i - 2) # Null
    /\ \E j \in 0..(scan.i - 2) :
          /\ At(scan.states, j) # Null
          /\ ~Negative(At(FlowOf(Head(scan.etfs)), j))

\* C3: inside an episode the recorded maxStreak never decreases; the running
\* maxStreak is 0 whenever the sector is OUT (it is reset at the exit index and
\* nowhere else), so an episode starts from the streak of its entry index.
C3_MaxStreak ==
    [][ ScanStepTaken =>
          LET etf == Head(scan.etfs)
              i == scan.i
          IN  /\ ~scan.inTrade => scan.maxStreak = 0
              /\ ~scan'.inTrade => scan'.maxStreak = 0
              /\ scan'.inTrade =>
                    /\ scan'.maxStreak > 0
                    /\ Val(At(scan'.states, i)).maxStreak = scan'.maxStreak
              /\ (scan.inTrade /\ scan'.inTrade) =>
                    /\ scan'.maxStreak >= scan.maxStreak
                    /\ Val(At(scan'.states, i)).maxStreak
                          >= Val(At(scan.states, i - 1)).maxStreak
              /\ (~scan.inTrade /\ scan'.inTrade) =>
                    scan'.maxStreak = NegativeRun(etf, i) ]_vars

\* C3 witness: the sector is in its second episode, after a streak that broke
\* inside the first one.
C3_Witness ==
    /\ pc = "scanning"
    /\ scan.etfs # <<>>
    /\ scan.inTrade
    /\ \E j \in 0..(scan.i - 1) : \E k \in (j + 1)..(scan.i - 1) :
          /\ At(scan.states, j) # Null
          /\ At(scan.states, k) = Null

\* C4: _computeStreak(etf, idx) is the length of the run of non-null, strictly
\* negative flow values that ends at idx: 0 when the value at idx is null, zero
\* or positive, 1 at index 0 when that value is negative, and 0 for an unknown
\* sector and for a sector without a flow array.
C4_Streak ==
    query.made =>
        LET c == FlowOf(query.etf)
        IN  /\ query.streak = NegativeRun(query.etf, query.idx)
            /\ ~Negative(At(c, query.idx)) => query.streak = 0
            /\ (query.idx = 0 /\ Negative(At(c, 0))) => query.streak = 1
            /\ query.etf \notin DOMAIN data.sectors => query.streak = 0
            /\ (query.etf \in DOMAIN data.sectors /\ ~data.sectors[query.etf].hasC)
                  => query.streak = 0

\* C4 witness: a streak of several days that an earlier non-negative value
\* stopped before index 0.
C4_Witness ==
    /\ query.made
    /\ query.streak >= 2
    /\ query.streak <= query.idx

\* The stage of the priority table for a trade state, a streak and a ma50.
StageTable(inTrade, streak, ma50) ==
    IF inTrade THEN Some("actif")
    ELSE IF streak >= 15 /\ Negative(ma50) THEN Some("actif")
    ELSE IF streak >= 15 THEN Some("construction")
    ELSE IF streak >= 10 THEN Some("construction")
    ELSE IF streak >= 3 THEN Some("surveillance")
    ELSE Null

\* The trade state that _computeTradeStates recorded for a sector and index.
RecordedInTrade(etf, idx) ==
    /\ etf \in DOMAIN tradeStates
    /\ At(tradeStates[etf], idx) # Null

\* C5: _signalStage(etf, idx) is the first match of the priority table: in
\* trade, active; streak >= 15 below the MA50, active; streak >= 15,
\* construction; streak >= 10, construction; streak >= 3, surveillance; else
\* null.
C5_StageTable ==
    query.made =>
        query.stage = StageTable(RecordedInTrade(query.etf, query.idx),
                                 NegativeRun(query.etf, query.idx),
                                 Ma50Of(query.etf, query.idx))

\* C5 witness: a streak of 15 days or more of a sector that is not in trade,
\* which the table puts in construction.
C5_Witness ==
    /\ query.made
    /\ query.streak >= 15
    /\ ~RecordedInTrade(query.etf, query.idx)
    /\ query.stage = Some("construction")

\* C6: a streak of at least 3 days gives surveillance, construction or active,
\* never null, whatever the ma50 value and the trade state.
C6_AtLeastSurveillance ==
    (query.made /\ NegativeRun(query.etf, query.idx) >= 3) =>
        query.stage \in {Some("surveillance"), Some("construction"), Some("actif")}

\* C6 witness: a streak of 3 days or more at an index without a ma50 value.
C6_Witness ==
    /\ query.made
    /\ query.streak >= 3
    /\ Ma50Of(query.etf, query.idx) = Null
    /\ query.stage = Some("surveillance")

----------------------------------------------------------------------------
(* Properties of the trade log *)

\* The step of computeTradeLogSync over index logScan.i of the current stock.
LogStepTaken ==
    /\ logScan.active
    /\ logScan.work # <<>>
    /\ logScan'.active
    /\ logScan'.work = logScan.work
    /\ logScan'.i = logScan.i + 1

\* The end of the scan of the current stock.
LogStockEndTaken ==
    /\ logScan.active
    /\ logScan.work # <<>>
    /\ logScan'.active
    /\ logScan'.work = Tail(logScan.work)

CloseOf(etf, ticker) == allStockHistories[etf].stocks[ticker].close
StockMa50Of(etf, ticker) == allStockHistories[etf].stocks[ticker].ma50

\* The sector is in trade at index i.
SectorIn(etf, i) == i >= 0 /\ At(tradeStates[etf], i) # Null

\* close[j] is a price that takes the profit of an entry at price e.
ReachesTarget(close, j, e) == At(close, j) # Null /\ Val(At(close, j)) * 100 >= e * 105

\* C7: for a ticker with no open trade, index i opens a trade exactly when the
\* sector is in trade at i and was not at i-1, the stock's ma50[i] is non-null
\* and <= -0.08, and close[i+1] exists and is non-null; the trade has
\* entryIdx = i+1 and entryPrice = close[i+1], and these are the values of the
\* trade that the log receives.
C7_EntryAtNextClose ==
    [][ /\ (LogStepTaken /\ ~logScan.inTrade) =>
            LET etf == Head(logScan.work)[1]
                ticker == Head(logScan.work)[2]
                i == logScan.i
                close == CloseOf(etf, ticker)
                m == At(StockMa50Of(etf, ticker), i)
                opens == /\ SectorIn(etf, i) /\ ~SectorIn(etf, i - 1)
                         /\ m # Null /\ Val(m) <= -8
                         /\ i + 1 < Len(close) /\ At(close, i + 1) # Null
            IN  /\ logScan'.inTrade = opens
                /\ opens => /\ logScan'.entryIdx = Some(i + 1)
                            /\ logScan'.entryPrice = At(close, i + 1)
                /\ tradeLog' = tradeLog
        /\ ((LogStepTaken \/ LogStockEndTaken) /\ tradeLog' # tradeLog) =>
            /\ logScan.inTrade
            /\ Len(tradeLog') = Len(tradeLog) + 1
            /\ tradeLog'[Len(tradeLog')].entryIdx = Val(logScan.entryIdx)
            /\ tradeLog'[Len(tradeLog')].entryPrice = Val(logScan.entryPrice)
            /\ tradeLog'[Len(tradeLog')].signalIdx = Val(logScan.entryIdx) - 1 ]_vars

\* C7 witness: the step over index logScan.i - 1 has just opened a trade.
C7_Witness ==
    /\ logScan.active
    /\ logScan.inTrade
    /\ logScan.entryIdx = Some(logScan.i)

OpenAt(t, j) ==
    /\ t.entryIdx <= j
    /\ t.exitIdx # Null => j < Val(t.exitIdx)

\* C9: the intervals [entryIdx, exitIdx) of the trades of one ticker never
\* overlap, and no trade of the ticker has its signal at an index where
\* another one is open or exits.
C9_NoOverlap ==
    \A n \in 1..Len(tradeLog) : \A k \in 1..Len(tradeLog) :
        LET t == tradeLog[n]
            u == tradeLog[k]
        IN  (n # k /\ t.etf = u.etf /\ t.ticker = u.ticker) =>
              /\ \A j \in 0..NDates : ~(OpenAt(t, j) /\ OpenAt(u, j))
              /\ ~OpenAt(t, u.signalIdx)
              /\ t.exitIdx # Some(u.signalIdx)

\* C9 witness: the scan is over, and a sector entry signal on a day of deep
\* discount with a close on the next day fell inside an open trade of the
\* ticker and gave no trade.
C9_Witness ==
    /\ tradeLogReady
    /\ \E n \in 1..Len(tradeLog) : \E s \in 0..(NDates - 2) :
          LET t == tradeLog[n]
          IN  /\ OpenAt(t, s)
              /\ SectorIn(t.etf, s) /\ ~SectorIn(t.etf, s - 1)
              /\ At(StockMa50Of(t.etf, t.ticker), s) = Some(-8)
              /\ At(CloseOf(t.etf, t.ticker), s + 1) # Null
              /\ \A k \in 1..Len(tradeLog) : tradeLog[k].signalIdx # s

\* The ongoing trades of a stock are at most one, entered after every other
\* trade of the stock.
OngoingIsLatest ==
    \A n \in 1..Len(tradeLog) : \A k \in 1..Len(tradeLog) :
        LET t == tradeLog[n]
            u == tradeLog[k]
        IN  (n # k /\ t.ongoing /\ t.etf = u.etf /\ t.ticker = u.ticker) =>
              /\ ~u.ongoing
              /\ u.entryIdx < t.entryIdx

\* C10: a trade still open when the scan of a ticker ends is appended to the
\* log with ongoing = true and exitIdx, exitPrice and ret null (nothing is
\* appended when no trade is open); a stock has at most one ongoing trade, and
\* it is its latest by entryIdx.
C10_OngoingKept ==
    [][ /\ LogStockEndTaken =>
            IF logScan.inTrade
            THEN /\ Len(tradeLog') = Len(tradeLog) + 1
                 /\ SubSeq(tradeLog', 1, Len(tradeLog)) = tradeLog
                 /\ LET t == tradeLog'[Len(tradeLog')]
                    IN  /\ t.ongoing
                        /\ t.exitIdx = Null /\ t.exitPrice = Null /\ t.ret = Null
                        /\ t.etf = Head(logScan.work)[1]
                        /\ t.ticker = Head(logScan.work)[2]
                        /\ t.entryIdx = Val(logScan.entryIdx)
                        /\ t.entryPrice = Val(logScan.entryPrice)
            ELSE tradeLog' = tradeLog
        /\ OngoingIsLatest' ]_vars

\* C10 witness: the log is complete and holds a closed trade of a stock
\* followed by its ongoing trade.
C10_Witness ==
    /\ tradeLogReady
    /\ \E n \in 1..Len(tradeLog) : \E k \in 1..Len(tradeLog) :
          /\ tradeLog[n].ongoing
          /\ ~tradeLog[k].ongoing
          /\ tradeLog[k].ticker = tradeLog[n].ticker

----------------------------------------------------------------------------
(* Inputs: two sectors and three stocks *)

BookEtfs == {"XLE", "XLK"}
BookTickers(etf) == IF etf = "XLE" THEN {"XOM"} ELSE {"AAPL", "MSFT"}

\* Sector series as in LogHistories, with the index at which the sector is
\* not below its MA50 chosen per sector: the streak reaches 15 at index 14,
\* and a sector that leaves the trade enters again on the next day.
BookHistories ==
    { [loaded |-> TRUE, dates |-> NDates,
       sectors |-> [e \in BookEtfs |->
           [hasC |-> TRUE, c |-> [i \in 1..NDates |-> Some(-1)],
            hasMa50 |-> TRUE,
            ma50 |-> [i \in 1..NDates |-> IF i = p[e] THEN Some(0) ELSE Some(-1)]]]] :
        p \in [BookEtfs -> {0, NDates - 2}] }

FlatClose == [i \in 1..NDates |-> Some(20)]
DeepMa50 == [i \in 1..NDates |-> Some(-8)]
BookStock(close, ma50) ==
    [hasClose |-> TRUE, close |-> close, hasMa50 |-> TRUE, ma50 |-> ma50]

\* Stocks whose close stays at 20, and whose ma50 is -0.07 at index 14 (no
\* entry at the first signal); and stocks that lack one of the two arrays.
StaysFlat == BookStock(FlatClose, DeepMa50)
LateDiscount == BookStock(FlatClose, [DeepMa50 EXCEPT ![15] = Some(-7)])
NoCloseArray == [hasClose |-> FALSE, close |-> <<>>, hasMa50 |-> TRUE, ma50 |-> DeepMa50]
NoMa50Array == [hasClose |-> TRUE, close |-> FlatClose, hasMa50 |-> FALSE, ma50 |-> <<>>]

\* Stocks whose close is 21 at index 16; null at index 16 and 21 at index 17;
\* 0, or -20, at index 15 (the entry index of the first signal).
RisesAt16 == BookStock([FlatClose EXCEPT ![17] = Some(21)], DeepMa50)
NullThenRise == BookStock([FlatClose EXCEPT ![17] = Null, ![18] = Some(21)], DeepMa50)
ZeroAtEntry == BookStock([FlatClose EXCEPT ![16] = Some(0)], DeepMa50)
NegativeAtEntry == BookStock([FlatClose EXCEPT ![16] = Some(-20)], DeepMa50)

BookStocks(ticker) ==
    IF ticker = "XOM" THEN {StaysFlat, RisesAt16, NoCloseArray}
    ELSE IF ticker = "MSFT" THEN {StaysFlat, LateDiscount, NoMa50Array}
    ELSE {StaysFlat, LateDiscount, NoCloseArray, NoMa50Array,
          RisesAt16, NullThenRise, ZeroAtEntry, NegativeAtEntry}

\* The files data/sectors/<etf>_history.json that arrive: all of them, or all
\* but one (a failed fetch leaves no entry for its sector).
BookFilesOf(etf) ==
    { [stocks |-> st] :
        st \in { f \in [BookTickers(etf) -> UNION { BookStocks(t) : t \in BookTickers(etf) }] :
                   \A t \in BookTickers(etf) : f[t] \in BookStocks(t) } }
BookFiles ==
    UNION { { f \in [D -> UNION { BookFilesOf(e) : e \in D }] :
                \A e \in D : f[e] \in BookFilesOf(e) } :
            D \in {BookEtfs, {"XLE"}, {"XLK"}} }

----------------------------------------------------------------------------
(* getSignals *)

\* const min = minDays || 3: an omitted threshold and a threshold of 0 are
\* both falsy.
MinDays(minDays) == IF minDays = Null \/ Val(minDays) = 0 THEN 3 ELSE Val(minDays)

\* The summary pushed for a sector (name and colour, copied for display, are
\* left out).
SignalOf(etf, idx) ==
    LET streak == ComputeStreak(etf, idx)
        ts == TradeStateAt(etf, idx)
        inTrade == InTradeAt(etf, idx)
    IN  [etf |-> etf,
         streak |-> IF inTrade THEN Val(ts).maxStreak ELSE streak,
         cmf |-> IF data.sectors[etf].hasC THEN At(data.sectors[etf].c, idx)
                 ELSE Some(0),
         stage |-> SignalStage(etf, idx),
         belowMA50 |-> BelowMA50(etf, idx),
         inTrade |-> inTrade]

\* for (const etf in this.data.sectors) if (streak >= min || inTrade) push
RECURSIVE SignalsLoop(_, _, _)
SignalsLoop(etfs, idx, min) ==
    IF etfs = <<>> THEN <<>>
    ELSE (IF ComputeStreak(Head(etfs), idx) >= min \/ InTradeAt(Head(etfs), idx)
          THEN <<SignalOf(Head(etfs), idx)>> ELSE <<>>)
         \o SignalsLoop(Tail(etfs), idx, min)

\* signals.sort((a, b) => b.streak - a.streak): a stable sort.
RECURSIVE InsertSignal(_, _)
InsertSignal(sorted, s) ==
    IF sorted = <<>> THEN <<s>>
    ELSE IF Head(sorted).streak >= s.streak
         THEN <<Head(sorted)>> \o InsertSignal(Tail(sorted), s)
         ELSE <<s>> \o sorted

RECURSIVE SortByStreak(_)
SortByStreak(list) ==
    IF list = <<>> THEN <<>>
    ELSE InsertSignal(SortByStreak(SubSeq(list, 1, Len(list) - 1)), list[Len(list)])

GetSignals(idx, minDays) ==
    IF ~data.loaded THEN <<>>
    ELSE SortByStreak(SignalsLoop(SeqOfSet(DOMAIN data.sectors), idx, MinDays(minDays)))

----------------------------------------------------------------------------
(* _getActivePositions *)

\* The close of the stock of a trade at an index, Null when the history of
\* its sector, the stock or the value is missing.
PriceAt(t, idx) ==
    IF t.etf \in DOMAIN allStockHistories
       /\ t.ticker \in DOMAIN allStockHistories[t.etf].stocks
       /\ allStockHistories[t.etf].stocks[t.ticker].hasClose
    THEN At(allStockHistories[t.etf].stocks[t.ticker].close, idx)
    ELSE Null

\* A trade is held at idx from its entry index on and before its exit index;
\* the variant also holds it on the exit day.
IsHeld_ThroughExit(t, idx) ==
    t.entryIdx <= idx /\ (t.exitIdx = Null \/ Val(t.exitIdx) >= idx)
IsHeld(t, idx) ==
    t.entryIdx <= idx /\ (t.exitIdx = Null \/ Val(t.exitIdx) > idx)

\* The position shown for a held trade: the trade and its price at idx.
PositionOf(t, idx) == [trade |-> t, price |-> Val(PriceAt(t, idx))]

RECURSIVE ActivePositions(_, _)
ActivePositions(log, idx) ==
    IF log = <<>> THEN <<>>
    ELSE (IF IsHeld(Head(log), idx) /\ PriceAt(Head(log), idx) # Null
             /\ Head(log).entryPrice > 0
          THEN <<PositionOf(Head(log), idx)>> ELSE <<>>)
         \o ActivePositions(Tail(log), idx)

----------------------------------------------------------------------------
(* The dashboard after loadData: trade log, slider and queries *)

\* _computeTradeStates as a whole: this._tradeStates = {} and one array of
\* states per sector.
TradeStatesOf ==
    [e \in DOMAIN data.sectors |-> ScanTo(e, data.dates).states]

\* The state in which setupTimeline awaits loadAllStockHistories: loadData
\* is done and setIndex(dateCount - 1) has been called.
InitBook ==
    /\ history \in BookHistories
    /\ data = history
    /\ pc = "ready"
    /\ scan = ScanStart(<<>>)
    /\ tradeStates = TradeStatesOf
    /\ query = NoQuery
    /\ stockFiles \in BookFiles
    /\ allStockHistories = <<>>
    /\ tradeLog = <<>>
    /\ tradeLogReady = FALSE
    /\ logScan = NoLogScan
    /\ currentIdx = NDates - 1
    /\ signals = NoSignals
    /\ positions = Null
    /\ screener = NoScreener
    /\ earlier = Null
    /\ UiAtLastDate(FetchesSettled)

\* The calls below are made on the view once setupTimeline has the trade log;
\* none is made on a view whose computation has been repeated.
Settled == pc = "ready" /\ tradeLogReady /\ ~logScan.active /\ earlier = Null

\* _computeTradeStates and computeTradeLogSync are called a second time on
\* the same data; the results of the first run are remembered in `earlier`.
Recompute ==
    /\ Settled
    /\ positions = Null /\ ~signals.made /\ ~query.made
    /\ earlier' = Some([tradeStates |-> tradeStates, tradeLog |-> tradeLog])
    /\ tradeStates' = TradeStatesOf
    /\ tradeLog' = LogReset(tradeLog)
    /\ logScan' = LogScanStart(LogWork(SeqOfSet(DOMAIN data.sectors)))
    /\ UNCHANGED <<history, data, pc, scan, query>>
    /\ UNCHANGED <<stockFiles, allStockHistories, tradeLogReady>>
    /\ UNCHANGED <<currentIdx, signals, positions, screener>>
    /\ UNCHANGED uiVars

\* The views of updateSummary, updateWatchingBar and updateOpenPanels rendered
\* for index idx: an open panel is rebuilt, a closed one is left alone.
Refreshed(d, idx) ==
    [d EXCEPT !.summary = Some(idx), !.watching = Some(idx),
              !.panel = IF d.openPanel = "none" THEN d.panel ELSE Some(idx)]

\* setupTimeline after computeTradeLogSync: setTradeData, activate,
\* updateSummary (which asks the view for its active positions),
\* updateWatchingBar, and the registration of the handlers.
UpdateSummary ==
    /\ Settled
    /\ positions = Null /\ ~signals.made /\ ~query.made
    /\ tradeData = Null
    /\ tradeData' = Some(tradeLog)
    /\ positions' = Some(ActivePositions(tradeLog, currentIdx))
    /\ dom' = [dom EXCEPT !.summary = Some(currentIdx), !.watching = Some(currentIdx)]
    /\ listeners' = TRUE
    /\ UNCHANGED sectorVars
    /\ UNCHANGED logVars
    /\ UNCHANGED <<currentIdx, signals, screener, earlier>>
    /\ UNCHANGED <<playVars, fetches, filterVars, graph>>

\* No function of the page is running: an event handler runs only between
\* the synchronous runs of _computeTradeStates and computeTradeLogSync.
Idle == pc = "ready" /\ ~logScan.active /\ earlier = Null

\* The input handler of the timeline slider: setIndex(idx), the date label,
\* updateSummary, updateWatchingBar, updateOpenPanels.
SliderInput(idx) ==
    /\ listeners
    /\ Idle
    /\ sliderValue' = idx
    /\ currentIdx' = idx
    /\ positions' = Some(ActivePositions(tradeLog, idx))
    /\ dom' = Refreshed([dom EXCEPT !.label = Some(idx)], idx)
    /\ UNCHANGED sectorVars
    /\ UNCHANGED logVars
    /\ UNCHANGED <<signals, screener, earlier>>
    /\ UNCHANGED <<timelineReady, timelinePlaying, timelineInterval, timers>>
    /\ UNCHANGED <<fetches, listeners, tradeData, filterVars, graph>>

\* A call of getSignals that moves the view to the index it is asked about.
GetSignalsCall_SetsIndex(idx, minDays) ==
    /\ pc = "ready"
    /\ ~signals.made
    /\ signals' = [made |-> TRUE, idx |-> idx, minDays |-> minDays,
                   list |-> GetSignals(idx, minDays)]
    /\ currentIdx' = idx
    /\ UNCHANGED sectorVars
    /\ UNCHANGED logVars
    /\ UNCHANGED <<positions, screener, earlier>>
    /\ UNCHANGED uiVars

\* A call of getSignals.  It changes nothing, so a behaviour holds one call.
GetSignalsCall(idx, minDays) ==
    /\ pc = "ready"
    /\ ~signals.made
    /\ signals' = [made |-> TRUE, idx |-> idx, minDays |-> minDays,
                   list |-> GetSignals(idx, minDays)]
    /\ UNCHANGED sectorVars
    /\ UNCHANGED logVars
    /\ UNCHANGED <<currentIdx, positions, screener, earlier>>
    /\ UNCHANGED uiVars

NextBook ==
    \/ LoadAllStockHistories
    \/ ComputeTradeLogStart
    \/ TradeLogStep
    \/ TradeLogStockEnd
    \/ TradeLogFinish
    \/ Recompute
    \/ UpdateSummary
    \/ \E idx \in 0..(NDates - 1) : SliderInput(idx)
    \/ \E idx \in 0..(NDates - 1) :
          Settled /\ positions = Null /\ ~query.made /\ GetSignalsCall(idx, Some(3))
    \/ \E etf \in BookEtfs, idx \in 0..(NDates - 1) :
          Settled /\ positions = Null /\ ~signals.made /\ Query(etf, idx)

SpecBook == InitBook /\ [][NextBook]_vars

----------------------------------------------------------------------------
(* Properties of the trade log over several sectors and stocks *)

\* computeTradeLogSync has returned (setupTimeline reads the log from here on).
LogDone == tradeLogReady /\ ~logScan.active

\* The position of the stock of a trade in the order of the two outer loops.
ScanOrder(t) ==
    LET w == LogWork(SeqOfSet(DOMAIN data.sectors))
    IN  CHOOSE j \in 1..Len(w) : w[j] = <<t.etf, t.ticker>>

\* C11: after computeTradeLogSync the trade log is sorted by signalIdx
\* ascending, where signalIdx = entryIdx - 1 for every trade: any two
\* consecutive entries a, b of the log have a.signalIdx <= b.signalIdx,
\* whatever their sectors and tickers.
C11_SortedBySignalIdx ==
    LogDone =>
        /\ \A n \in 1..Len(tradeLog) :
              tradeLog[n].signalIdx = tradeLog[n].entryIdx - 1
        /\ \A n \in 1..(Len(tradeLog) - 1) :
              tradeLog[n].signalIdx <= tradeLog[n + 1].signalIdx

\* A finished log in which a trade of one sector stands before a trade of
\* another sector that was scanned, and pushed, earlier.
C11_Witness ==
    /\ LogDone
    /\ \E n, k \in 1..Len(tradeLog) :
          /\ n < k
          /\ tradeLog[n].etf # tradeLog[k].etf
          /\ ScanOrder(tradeLog[n]) > ScanOrder(tradeLog[k])
          /\ tradeLog[n].signalIdx < tradeLog[k].signalIdx

C13_DataUnchanged ==
    [][ /\ data' = data
        /\ (allStockHistories # <<>> => allStockHistories' = allStockHistories)
        /\ (query' # query \/ signals' # signals) =>
              (tradeStates' = tradeStates /\ currentIdx' = currentIdx)
      ]_vars

\* getSignals has been called on a view whose trade log holds trades, at an
\* index other than the current one.
C13_Witness ==
    /\ LogDone
    /\ tradeLog # <<>>
    /\ signals.made
    /\ signals.idx # currentIdx
    /\ signals.list # <<>>

----------------------------------------------------------------------------
(* Further properties of the sector scan and of the query functions *)

\* C14: a null (or missing) ma50 value at index i is treated as not below the
\* moving average: a sector that is OUT cannot enter at i whatever its
\* streak, and a sector that is IN leaves the trade at i, with null recorded
\* as its state at i.
C14_NullMa50 ==
    [][ (ScanStepTaken /\ Ma50Of(Head(scan.etfs), scan.i) = Null) =>
            /\ ~scan'.inTrade
            /\ At(scan'.states, scan.i) = Null
      ]_vars

\* The scan has just left a trade at an index whose ma50 is null, the streak
\* being 15 or more there.
C14_Witness ==
    /\ pc = "scanning"
    /\ scan.etfs # <<>>
    /\ scan.i >= 2
    /\ Ma50Of(Head(scan.etfs), scan.i - 1) = Null
    /\ ComputeStreak(Head(scan.etfs), scan.i - 1) >= 15
    /\ At(scan.states, scan.i - 2) # Null
    /\ At(scan.states, scan.i - 1) = Null
    /\ ~scan.inTrade

----------------------------------------------------------------------------
(* The sector list and the screener: getSignals, loadAllStocks, renderScreener *)

\* Sector series for the two views: XLE has a flow that is negative but for
\* at most one positive day and is below its MA50 but for at most one of the
\* last two days; XLK is below its MA50 throughout and its streak at the
\* latest index is the whole series, 11 or 3.
ViewHistories ==
    { [loaded |-> TRUE, dates |-> NDates,
       sectors |-> [e \in BookEtfs |->
           IF e = "XLE"
           THEN [hasC |-> TRUE,
                 c |-> [i \in 1..NDates |-> IF i = p THEN Some(1) ELSE Some(-1)],
                 hasMa50 |-> TRUE,
                 ma50 |-> [i \in 1..NDates |-> IF i = q THEN Some(0) ELSE Some(-1)]]
           ELSE [hasC |-> TRUE,
                 c |-> [i \in 1..NDates |-> IF i = r THEN Some(1) ELSE Some(-1)],
                 hasMa50 |-> TRUE,
                 ma50 |-> [i \in 1..NDates |-> Some(-1)]]]] :
        p \in 0..NDates, q \in {0, NDates - 1, NDates},
        r \in {0, NDates - 11, NDates - 3} }

\* SECTOR_ETFS, restricted to the sectors of the model.
ScreenerEtfs == <<"XLK", "XLE">>

\* The row pushed for a stock of data/sectors/<etf>.json (the columns of the
\* stock itself are left out).
ScreenerRow(etf) ==
    LET latIdx == data.dates - 1
        known == data.loaded /\ etf \in DOMAIN data.sectors
        streak == IF known THEN ComputeStreak(etf, latIdx) ELSE 0
        ts == IF known /\ InTradeAt(etf, latIdx) THEN TradeStateAt(etf, latIdx) ELSE Null
    IN  [sector_etf |-> etf,
         signal_streak |-> IF ts # Null THEN Val(ts).maxStreak ELSE streak,
         below_ma50 |-> known /\ BelowMA50(etf, latIdx),
         in_trade |-> ts # Null]

\* for (const data of results): a file that did not arrive is skipped; each
\* file of the model holds one stock.
RECURSIVE ScreenerRows(_, _)
ScreenerRows(etfs, arrived) ==
    IF etfs = <<>> THEN <<>>
    ELSE (IF Head(etfs) \in arrived THEN <<ScreenerRow(Head(etfs))>> ELSE <<>>)
         \o ScreenerRows(Tail(etfs), arrived)

\* The signal badge of renderScreener: "active", "building", "watch" or none.
SignalBadge(s) ==
    IF (s.signal_streak >= 15 /\ s.below_ma50) \/ s.in_trade THEN Some("active")
    ELSE IF s.signal_streak >= 10 THEN Some("building")
    ELSE IF s.signal_streak >= 5 THEN Some("watch")
    ELSE Null

\* loadAllStocks with the files that arrived, and renderScreener with no
\* filter set: one table row, with its badge, per stock.
LoadAllStocks(arrived) ==
    /\ pc = "ready"
    /\ ~screener.loaded
    /\ LET rows == ScreenerRows(ScreenerEtfs, arrived)
       IN  screener' = [loaded |-> TRUE, allStocks |-> rows,
                        badges |-> [n \in 1..Len(rows) |-> SignalBadge(rows[n])]]
    /\ UNCHANGED sectorVars
    /\ UNCHANGED logVars
    /\ UNCHANGED <<currentIdx, signals, positions, earlier>>
    /\ UNCHANGED uiVars

\* The view after loadData and setIndex(dateCount - 1).
InitView ==
    /\ history \in ViewHistories
    /\ data = history
    /\ pc = "ready"
    /\ scan = ScanStart(<<>>)
    /\ tradeStates = TradeStatesOf
    /\ query = NoQuery
    /\ stockFiles = <<>>
    /\ allStockHistories = <<>>
    /\ tradeLog = <<>>
    /\ tradeLogReady = FALSE
    /\ logScan = NoLogScan
    /\ currentIdx = NDates - 1
    /\ signals = NoSignals
    /\ positions = Null
    /\ screener = NoScreener
    /\ earlier = Null
    /\ UiAtLastDate(NoFetches)

\* The thresholds getSignals is called with: omitted, 0, 1, 3, 10 and 15.
Thresholds == {Null, Some(0), Some(1), Some(3), Some(10), Some(15)}

NextView ==
    \/ \E idx \in 0..(NDates - 1), minDays \in Thresholds : GetSignalsCall(idx, minDays)
    \/ \E arrived \in SUBSET BookEtfs : LoadAllStocks(arrived)

SpecView == InitView /\ [][NextView]_vars

----------------------------------------------------------------------------
(* Properties of getSignals and of the screener *)

\* The sectors getSignals(idx, minDays) is to report.
Reported(idx, minDays) ==
    { e \in DOMAIN data.sectors :
        ComputeStreak(e, idx) >= minDays \/ InTradeAt(e, idx) }

\* C15: for every index idx and every threshold minDays >= 0,
\* getSignals(idx, minDays) returns exactly one summary for each sector whose
\* streak at idx is >= minDays or that is in trade at idx, and none for any
\* other sector; each summary's streak is the trade's maxStreak when in trade
\* and the raw streak otherwise, and the list is sorted descending by it.
C15_GetSignals ==
    (signals.made /\ signals.minDays # Null) =>
        LET list == signals.list
            idx == signals.idx
        IN  /\ \A e \in Reported(idx, Val(signals.minDays)) :
                  Cardinality({ n \in 1..Len(list) : list[n].etf = e }) = 1
            /\ \A n \in 1..Len(list) :
                  /\ list[n].etf \in Reported(idx, Val(signals.minDays))
                  /\ list[n].streak =
                        IF InTradeAt(list[n].etf, idx)
                        THEN Val(TradeStateAt(list[n].etf, idx)).maxStreak
                        ELSE ComputeStreak(list[n].etf, idx)
            /\ \A n \in 1..(Len(list) - 1) : list[n].streak >= list[n + 1].streak

\* The badge that stands for a stage of _signalStage.
BadgeOfStage(stage) ==
    IF stage = Some("actif") THEN Some("active")
    ELSE IF stage = Some("construction") THEN Some("building")
    ELSE IF stage = Some("surveillance") THEN Some("watch")
    ELSE Null

\* C16: the four-stage classification is the same in every view: for every
\* (streak, below-MA flag, trade state) of a sector at the latest index, the
\* signal badge chosen by the screener (active / building / watch / none) is
\* the stage _signalStage returns for that sector and index.
C16_ScreenerStage ==
    screener.loaded =>
        \A n \in 1..Len(screener.allStocks) :
            screener.badges[n] =
                BadgeOfStage(SignalStage(screener.allStocks[n].sector_etf,
                                         data.dates - 1))

\* A stock the loops of computeTradeLogSync do not skip: its sector has a
\* stock history and the stock has a close and an ma50 array.
Kept(etf, ticker) ==
    /\ etf \in DOMAIN tradeStates
    /\ etf \in DOMAIN allStockHistories
    /\ ticker \in DOMAIN allStockHistories[etf].stocks
    /\ allStockHistories[etf].stocks[ticker].hasClose
    /\ allStockHistories[etf].stocks[ticker].hasMa50

\* The scan of one stock on its own, from an empty log: the locals and the
\* log after the first n dates, and the log at the end of its loop.
RECURSIVE LoneScan(_, _)
LoneScan(pair, n) ==
    IF n = 0 THEN [l |-> LogScanStart(<<pair>>), log |-> <<>>]
    ELSE CHOOSE r \in { LogStep(x.l, x.log, n - 1) : x \in {LoneScan(pair, n - 1)} } : TRUE

LoneLog(pair) ==
    LET n1 == Len(tradeStates[pair[1]])
        n2 == Len(StockOf(pair[1], pair[2]).ma50)
        x == LoneScan(pair, IF n1 < n2 THEN n1 ELSE n2)
    IN  LogAfterLoop(x.l, x.log)

\* The trades of a stock in the log, in the order of the log.
TradesOf(log, etf, ticker) ==
    SelectSeq(log, LAMBDA t : t.etf = etf /\ t.ticker = ticker)

\* The loops never read an array of a sector or stock that lacks it (which
\* would raise a TypeError).
NoMissingRead ==
    (logScan.active /\ logScan.work # <<>>) =>
        Kept(Head(logScan.work)[1], Head(logScan.work)[2])

\* The finished log holds no trade of a skipped stock, and for every other
\* stock exactly the trades of a scan of that stock alone.
SkippedLeaveNoTrace ==
    LogDone =>
        /\ \A n \in 1..Len(tradeLog) : Kept(tradeLog[n].etf, tradeLog[n].ticker)
        /\ \A e \in DOMAIN allStockHistories :
              \A t \in DOMAIN allStockHistories[e].stocks :
                  Kept(e, t) => TradesOf(tradeLog, e, t) = LoneLog(<<e, t>>)

C18_EntryPricePositive ==
    LogDone => \A n \in 1..Len(tradeLog) : tradeLog[n].entryPrice > 0

\* The selection of the active positions, stated on the log: the indices of
\* the trades entered at or before idx and not yet left at idx, whose stock
\* has a close at idx and whose entry price is positive.
HeldAt(idx) ==
    { k \in 1..Len(tradeLog) :
        /\ tradeLog[k].entryIdx <= idx
        /\ (tradeLog[k].exitIdx = Null \/ Val(tradeLog[k].exitIdx) > idx)
        /\ PriceAt(tradeLog[k], idx) # Null
        /\ tradeLog[k].entryPrice > 0 }

\* C19: at any query index, the active positions are exactly the trades of
\* the trade log with entryIdx <= index and (exitIdx null or exitIdx > index)
\* whose stock has a close price at that index and whose entryPrice > 0; a
\* trade is never reported as an active position before its entry index nor
\* on or after its exit index.
C19_ActivePositions ==
    positions # Null =>
        LET ps == Val(positions)
        IN  /\ Len(ps) = Cardinality(HeldAt(currentIdx))
            /\ { ps[n].trade : n \in 1..Len(ps) } =
                  { tradeLog[k] : k \in HeldAt(currentIdx) }
            /\ \A n \in 1..Len(ps) :
                  /\ ps[n].trade.entryIdx <= currentIdx
                  /\ ps[n].trade.exitIdx # Null =>
                        currentIdx < Val(ps[n].trade.exitIdx)

\* The slider stands on the exit day of a closed trade while another trade
\* is held, and a trade with an entry price of 0 is left out.
C19_Witness ==
    /\ positions # Null
    /\ Val(positions) # <<>>
    /\ \E k \in 1..Len(tradeLog) : tradeLog[k].exitIdx = Some(currentIdx)
    /\ \E k \in 1..Len(tradeLog) :
          tradeLog[k].entryPrice <= 0 /\ tradeLog[k].entryIdx <= currentIdx

\* The flow and the ma50 of a sector are negative on every day.
AllNegative(etf) ==
    /\ data.loaded
    /\ etf \in DOMAIN data.sectors
    /\ \A j \in 0..(data.dates - 1) :
          Negative(At(FlowOf(etf), j)) /\ Negative(Ma50Of(etf, j))

\* The stage of such a sector by its streak.
StageOfRun(streak) ==
    IF streak >= 15 THEN Some("actif")
    ELSE IF streak >= 10 THEN Some("construction")
    ELSE IF streak >= 3 THEN Some("surveillance")
    ELSE Null

\* C20: for a sector whose flow indicator is negative on every day from index
\* 0 and whose ma50 is negative on every day, the streak at index i is i + 1
\* (so the streak at index 10 is 11), and the stage changes exactly at the
\* threshold boundaries: none to surveillance when the streak goes from 2 to
\* 3, surveillance to construction from 9 to 10, construction to active from
\* 14 to 15, with no other stage change.
C20_Boundaries ==
    (query.made /\ AllNegative(query.etf)) =>
        /\ query.streak = query.idx + 1
        /\ query.stage = StageOfRun(query.idx + 1)
        /\ query.idx >= 1 =>
              /\ SignalStage(query.etf, query.idx - 1) = StageOfRun(query.idx)
              /\ (query.stage # SignalStage(query.etf, query.idx - 1))
                    <=> (query.idx + 1 \in {3, 10, 15})

\* The stage asked at index 14 of such a sector: the streak has gone from 14
\* to 15 and the stage from construction to active.
C20_Witness ==
    /\ query.made
    /\ AllNegative(query.etf)
    /\ query.idx = 14
    /\ query.streak = 15
    /\ query.stage = Some("actif")
    /\ SignalStage(query.etf, 13) = Some("construction")

----------------------------------------------------------------------------
(* Invariants of the recorded trade states *)

\* The maxStreak recorded for a sector at an in-trade index.
RecordedMax(etf, idx) == Val(At(tradeStates[etf], idx)).maxStreak

\* C23: after _computeTradeStates, for every sector and index i, if
\* streak(i) >= 15 and ma50[i] < 0 then the recorded state at i is in trade.
\* Hence the fresh-trigger branches of _signalStage and _isSignalActif never
\* decide the result: _isSignalActif(etf, i) is true exactly when the state at
\* i is in trade, exactly when _signalStage(etf, i) is active.
C23_FreshTriggerDead ==
    query.made =>
        /\ (NegativeRun(query.etf, query.idx) >= 15
              /\ Negative(Ma50Of(query.etf, query.idx)))
              => RecordedInTrade(query.etf, query.idx)
        /\ query.actif <=> RecordedInTrade(query.etf, query.idx)
        /\ query.actif <=> (query.stage = Some("actif"))

\* A sector asked on the first day its streak is 15 and it is below its MA50.
C23_Witness ==
    /\ query.made
    /\ query.streak = 15
    /\ Negative(Ma50Of(query.etf, query.idx))
    /\ query.actif
    /\ ~RecordedInTrade(query.etf, query.idx - 1)

\* The first index of the in-trade episode that holds index idx.
EpisodeStart(etf, idx) ==
    CHOOSE k \in 0..idx :
        /\ \A j \in k..idx : RecordedInTrade(etf, j)
        /\ ~RecordedInTrade(etf, k - 1)

\* The largest streak of a sector over the indices from..to.
MaxRun(etf, from, to) ==
    CHOOSE m \in { NegativeRun(etf, j) : j \in from..to } :
        \A j \in from..to : NegativeRun(etf, j) <= m

\* C24: at every in-trade index i of a sector, the recorded maxStreak equals
\* the maximum of streak(j) over the indices j from the entry index of the
\* current episode up to i; in particular maxStreak >= 15 and maxStreak >=
\* streak(i), so the effective streak reported by getSignals for an in-trade
\* sector is never below its raw streak.
C24_MaxOverEpisode ==
    (query.made /\ RecordedInTrade(query.etf, query.idx)) =>
        LET etf == query.etf
            i == query.idx
        IN  /\ RecordedMax(etf, i) = MaxRun(etf, EpisodeStart(etf, i), i)
            /\ RecordedMax(etf, i) >= 15
            /\ RecordedMax(etf, i) >= query.streak
            /\ SignalOf(etf, i).streak = RecordedMax(etf, i)
            /\ SignalOf(etf, i).streak >= ComputeStreak(etf, i)

\* An in-trade index at which the streak has broken after it had grown past
\* the 15 days of the entry.
C24_Witness ==
    /\ query.made
    /\ RecordedInTrade(query.etf, query.idx)
    /\ query.streak = 0
    /\ RecordedMax(query.etf, query.idx) > 15
    /\ EpisodeStart(query.etf, query.idx) < query.idx - 1

\* C25: every index at which a sector's state is in trade has a non-null ma50
\* strictly below 0, and each sector's state array has exactly one entry per
\* date, each entry being null or an object with inTrade = true; so every
\* summary returned by getSignals with inTrade = true also has belowMA50 =
\* true and stage active.
C25_InTradeBelowMA ==
    pc = "ready" =>
        /\ \A etf \in DOMAIN tradeStates :
              /\ Len(tradeStates[etf]) = data.dates
              /\ \A i \in 0..(data.dates - 1) :
                    At(tradeStates[etf], i) # Null =>
                        /\ Val(At(tradeStates[etf], i)).inTrade
                        /\ Negative(Ma50Of(etf, i))
        /\ (query.made /\ query.etf \in DOMAIN data.sectors
              /\ SignalOf(query.etf, query.idx).inTrade) =>
                 /\ SignalOf(query.etf, query.idx).belowMA50
                 /\ SignalOf(query.etf, query.idx).stage = Some("actif")

\* A sector asked at an in-trade index just before the index at which a null
\* ma50 ends the trade.
C25_Witness ==
    /\ query.made
    /\ RecordedInTrade(query.etf, query.idx)
    /\ Ma50Of(query.etf, query.idx + 1) = Null
    /\ query.idx + 1 < data.dates
    /\ ~RecordedInTrade(query.etf, query.idx + 1)

----------------------------------------------------------------------------
(* Invariants of the trades of the log *)

\* C26: for every trade in the trade log, signalIdx is the first index of an
\* in-trade episode of the trade's sector (in trade at signalIdx, not in trade
\* at signalIdx - 1), entryIdx = signalIdx + 1 lies inside the stock's close
\* array, and for closed trades exitIdx > entryIdx; a stock therefore gets at
\* most one trade per sector episode and cannot enter later in an episode
\* whose first day it missed.
C26_SignalIsEpisodeStart ==
    /\ \A n \in 1..Len(tradeLog) :
          LET t == tradeLog[n]
          IN  /\ SectorIn(t.etf, t.signalIdx)
              /\ ~SectorIn(t.etf, t.signalIdx - 1)
              /\ t.entryIdx = t.signalIdx + 1
              /\ t.entryIdx < Len(CloseOf(t.etf, t.ticker))
              /\ t.exitIdx # Null => Val(t.exitIdx) > t.entryIdx
    /\ \A n, k \in 1..Len(tradeLog) :
          (n # k /\ tradeLog[n].etf = tradeLog[k].etf
                 /\ tradeLog[n].ticker = tradeLog[k].ticker)
              => tradeLog[n].signalIdx # tradeLog[k].signalIdx

\* The finished log of a stock that was not at its deep discount on the first
\* day of the first episode of its sector: its only trade is of the second.
C26_Witness ==
    /\ tradeLogReady
    /\ Len(tradeLog) = 1
    /\ tradeLog[1].signalIdx > 14
    /\ SectorIn(tradeLog[1].etf, 14)
    /\ SectorIn(tradeLog[1].etf, 15)
    /\ ~DeepDiscount(At(StockMa50Of(tradeLog[1].etf, tradeLog[1].ticker), 14))


----------------------------------------------------------------------------
(* The page of app.js: start-up, then the handlers of the timeline *)

\* The stock files of the page: every stock has its arrays; a sector whose
\* fetch fails has no file.
AppFiles ==
    { f \in BookFiles :
        \A e \in DOMAIN f : \A t \in DOMAIN f[e].stocks :
            f[e].stocks[t] \in {StaysFlat, RisesAt16} }

\* The page at DOMContentLoaded: nothing is loaded, no handler is registered.
InitApp ==
    /\ history \in BookHistories
    /\ data = NoData
    /\ pc = "new"
    /\ scan = NoScan
    /\ tradeStates = <<>>
    /\ query = NoQuery
    /\ stockFiles \in AppFiles
    /\ allStockHistories = <<>>
    /\ tradeLog = <<>>
    /\ tradeLogReady = FALSE
    /\ logScan = NoLogScan
    /\ currentIdx = 0
    /\ signals = NoSignals
    /\ positions = Null
    /\ screener = NoScreener
    /\ earlier = Null
    /\ UiNew

\* slider.max
SliderMax == data.dates - 1

\* setupTimeline between its two awaits: the slider, timelineReady, the date
\* label, setIndex(dateCount - 1); then loadAllStockHistories starts one
\* fetch per sector.  No handler is registered here.
SetupAfterLoad_ListenersEarly ==
    /\ pc = "ready"
    /\ ~timelineReady
    /\ data.loaded /\ data.dates # 0
    /\ sliderValue' = data.dates - 1
    /\ timelineReady' = TRUE
    /\ dom' = [dom EXCEPT !.label = Some(data.dates - 1)]
    /\ currentIdx' = data.dates - 1
    /\ fetches' = [started |-> TRUE, pending |-> DOMAIN data.sectors]
    /\ listeners' = TRUE
    /\ UNCHANGED sectorVars
    /\ UNCHANGED logVars
    /\ UNCHANGED <<signals, positions, screener, earlier>>
    /\ UNCHANGED <<timelinePlaying, timelineInterval, timers>>
    /\ UNCHANGED <<tradeData, filterVars, graph>>

SetupAfterLoad ==
    /\ pc = "ready"
    /\ ~timelineReady
    /\ data.loaded /\ data.dates # 0
    /\ sliderValue' = data.dates - 1
    /\ timelineReady' = TRUE
    /\ dom' = [dom EXCEPT !.label = Some(data.dates - 1)]
    /\ currentIdx' = data.dates - 1
    /\ fetches' = [started |-> TRUE, pending |-> DOMAIN data.sectors]
    /\ UNCHANGED sectorVars
    /\ UNCHANGED logVars
    /\ UNCHANGED <<signals, positions, screener, earlier>>
    /\ UNCHANGED <<timelinePlaying, timelineInterval, timers>>
    /\ UNCHANGED <<listeners, tradeData, filterVars, graph>>

\* The fetch of one stock-history file settles (with the file, or with null
\* when the server does not deliver it).
FetchSettles(etf) ==
    /\ fetches.started
    /\ etf \in fetches.pending
    /\ fetches' = [fetches EXCEPT !.pending = @ \ {etf}]
    /\ UNCHANGED sectorVars
    /\ UNCHANGED logVars
    /\ UNCHANGED callVars
    /\ UNCHANGED <<playVars, dom, listeners, tradeData, filterVars, graph>>

\* setInterval returns an id no armed timer has.
NewTimer(armed) ==
    CHOOSE n \in 1..(Cardinality(armed) + 1) : n \notin armed

\* stopPlay: timelinePlaying = false; the timer of timelineInterval, if any,
\* is cleared.
StopPlay_KeepsTimer(playing, interval, armed) ==
    [playing |-> FALSE, interval |-> Null, armed |-> armed]

StopPlay(playing, interval, armed) ==
    [playing |-> FALSE,
     interval |-> Null,
     armed |-> IF interval # Null THEN armed \ {Val(interval)} ELSE armed]

\* The playback has reached the end of the series: the slider is at its
\* maximum.  (A variant stops one date early.)
AtEnd_OneShort(value) == value + 1 >= SliderMax

AtEnd(value) == value >= SliderMax

\* The click handler of the play button.
TogglePlay ==
    /\ listeners
    /\ Idle
    /\ IF ~timelineReady
       THEN UNCHANGED <<timelinePlaying, timelineInterval, timers, sliderValue, currentIdx>>
       ELSE IF timelinePlaying
       THEN LET s == StopPlay(timelinePlaying, timelineInterval, timers)
            IN  /\ timelinePlaying' = s.playing
                /\ timelineInterval' = s.interval
                /\ timers' = s.armed
                /\ UNCHANGED <<sliderValue, currentIdx>>
       ELSE /\ timelinePlaying' = TRUE
            /\ IF AtEnd(sliderValue)
               THEN sliderValue' = 0 /\ currentIdx' = 0
               ELSE UNCHANGED <<sliderValue, currentIdx>>
            /\ timelineInterval' = Some(NewTimer(timers))
            /\ timers' = timers \cup {NewTimer(timers)}
    /\ UNCHANGED sectorVars
    /\ UNCHANGED logVars
    /\ UNCHANGED <<signals, positions, screener, earlier>>
    /\ UNCHANGED <<timelineReady, setupVars, filterVars, graph>>

\* The callback of the interval timer id fires.
Tick(id) ==
    /\ id \in timers
    /\ Idle
    /\ IF AtEnd(sliderValue)
       THEN LET s == StopPlay(timelinePlaying, timelineInterval, timers)
            IN  /\ timelinePlaying' = s.playing
                /\ timelineInterval' = s.interval
                /\ timers' = s.armed
                /\ UNCHANGED <<sliderValue, currentIdx, positions, dom>>
       ELSE /\ sliderValue' = sliderValue + 1
            /\ currentIdx' = sliderValue + 1
            /\ positions' = Some(ActivePositions(tradeLog, sliderValue + 1))
            /\ dom' = Refreshed([dom EXCEPT !.label = Some(sliderValue + 1)],
                                sliderValue + 1)
            /\ UNCHANGED <<timelinePlaying, timelineInterval, timers>>
    /\ UNCHANGED sectorVars
    /\ UNCHANGED logVars
    /\ UNCHANGED <<signals, screener, earlier>>
    /\ UNCHANGED <<timelineReady, fetches, listeners, tradeData, filterVars, graph>>

\* toggleGoldPanel / toggleSectorPanel: the panel closes, or it opens, closes
\* the other panel and is built for the current index.
TogglePanel(name) ==
    /\ listeners
    /\ Idle
    /\ IF dom.openPanel = name
       THEN /\ dom' = [dom EXCEPT !.openPanel = "none"]
            /\ UNCHANGED positions
       ELSE /\ dom' = [dom EXCEPT !.openPanel = name, !.panel = Some(currentIdx)]
            /\ positions' = IF name = "gold"
                            THEN Some(ActivePositions(tradeLog, currentIdx))
                            ELSE positions
    /\ UNCHANGED sectorVars
    /\ UNCHANGED logVars
    /\ UNCHANGED <<currentIdx, signals, screener, earlier>>
    /\ UNCHANGED <<playVars, fetches, listeners, tradeData, filterVars, graph>>

NextApp ==
    \/ LoadData
    \/ TradeStatesStep
    \/ TradeStatesStore
    \/ SetupAfterLoad
    \/ \E etf \in BookEtfs : FetchSettles(etf)
    \/ LoadAllStockHistories
    \/ ComputeTradeLogStart
    \/ TradeLogStep
    \/ TradeLogStockEnd
    \/ TradeLogFinish
    \/ UpdateSummary
    \/ \E idx \in 0..(NDates - 1) : SliderInput(idx)
    \/ TogglePlay
    \/ \E id \in timers : Tick(id)
    \/ \E name \in {"gold", "sector"} : TogglePanel(name)

SpecApp == InitApp /\ [][NextApp]_vars


----------------------------------------------------------------------------
(* Properties of the start-up of the page *)

\* The log computeTradeLogSync builds from the trade states and the stock
\* histories of the state: the trades of each stock in the order of the loops.
RECURSIVE LogOfWork(_)
LogOfWork(work) ==
    IF work = <<>> THEN <<>>
    ELSE LoneLog(Head(work)) \o LogOfWork(Tail(work))

\* A query of the positions or of the watchlist has run: updateSummary,
\* updateWatchingBar or the build of a panel.
QueryHasRun ==
    positions # Null \/ dom.summary # Null \/ dom.watching # Null \/ dom.panel # Null

\* C21: during start-up, under every interleaving of the history fetches
\* with user events, the trade states are computed before the trade log, the
\* trade log is built only after every stock-history fetch has settled, and
\* no position or watchlist query runs before setTradeData has received the
\* complete, sorted trade log: no reader sees a partially built log.
C21_StartupOrder ==
    /\ (logScan.active \/ tradeLogReady) =>
          /\ pc = "ready"
          /\ tradeStates = TradeStatesOf
          /\ fetches.started /\ fetches.pending = {}
          /\ allStockHistories = stockFiles
    /\ QueryHasRun => tradeData # Null
    /\ tradeData # Null =>
          /\ tradeLogReady /\ ~logScan.active
          /\ Val(tradeData) = tradeLog
          /\ tradeLog = SortBySignalIdx(LogOfWork(LogWork(SeqOfSet(DOMAIN data.sectors))))

\* The gold panel has been built from a log of two trades or more while the
\* playback runs, and a position is held at the index shown.
C21_Witness ==
    /\ tradeData # Null /\ Len(Val(tradeData)) >= 2
    /\ dom.openPanel = "gold" /\ dom.panel = Some(currentIdx)
    /\ timelinePlaying
    /\ positions # Null /\ Val(positions) # <<>>


----------------------------------------------------------------------------
(* Properties of the handlers of the timeline *)

\* The date label, the positions summary, the watching bar and the open
\* panel are those of index idx.
ViewsAt(d, idx) ==
    /\ d.label = Some(idx)
    /\ d.summary = Some(idx)
    /\ d.watching = Some(idx)
    /\ d.openPanel # "none" => d.panel = Some(idx)

\* C22: per-index results are never stale: after every event handler that
\* changes the timeline index (slider input, a playback tick, the rewind to
\* index 0 when play is pressed at the end of the series), the positions
\* summary, the watching bar, the open panels and the date label have been
\* recomputed for the new index before the handler returns.
C22_ViewsFresh ==
    [][(listeners /\ currentIdx' # currentIdx) =>
           (/\ ViewsAt(dom', currentIdx')
            /\ positions' = Some(ActivePositions(tradeLog', currentIdx')))]_vars

\* The same, with the rewind of togglePlay set aside: the slider handler and
\* the tick leave every view at the new index.
C22_FreshButRewind ==
    [][(listeners /\ currentIdx' # currentIdx /\ ~(timelinePlaying' /\ ~timelinePlaying)) =>
           (/\ ViewsAt(dom', currentIdx')
            /\ positions' = Some(ActivePositions(tradeLog', currentIdx')))]_vars


----------------------------------------------------------------------------
(* The page of part_000: timeline, signal filter, sector mode, view switch *)

\* The page once setupTimeline has run: the chart shows the last date, the
\* chips are built and every handler is registered.
InitPage ==
    /\ history \in BookHistories
    /\ data = history
    /\ pc = "ready"
    /\ scan = ScanStart(<<>>)
    /\ tradeStates = TradeStatesOf
    /\ query = NoQuery
    /\ stockFiles = <<>>
    /\ allStockHistories = <<>>
    /\ tradeLog = <<>>
    /\ tradeLogReady = FALSE
    /\ logScan = NoLogScan
    /\ currentIdx = NDates - 1
    /\ signals = NoSignals
    /\ positions = Null
    /\ screener = NoScreener
    /\ earlier = Null
    /\ timelineReady = TRUE
    /\ timelinePlaying = FALSE
    /\ timelineInterval = Null
    /\ timers = {}
    /\ sliderValue = NDates - 1
    /\ dom = [NoViews EXCEPT !.label = Some(NDates - 1)]
    /\ fetches = NoFetches
    /\ listeners = TRUE
    /\ tradeData = Null
    /\ signalFilterActive = FALSE
    /\ hiddenSectors = {}
    /\ sectorMode = Null
    /\ currentView = "graph"
    /\ graph = NoGraph

\* applySignalFilter: with the filter on, every sector of the data is shown
\* when _isSignalActif holds at the current index and hidden when not.
ApplySignalFilter(active, hidden, idx) ==
    IF ~active \/ ~data.loaded THEN hidden
    ELSE (hidden \ DOMAIN data.sectors)
            \cup { e \in DOMAIN data.sectors : ~IsSignalActif(e, idx) }

\* toggleSector
ToggleSector(hidden, etf) ==
    IF etf \in hidden THEN hidden \ {etf} ELSE hidden \cup {etf}

\* The timeline bar and the chips are on screen: graph view, no sector mode.
BarVisible == currentView = "graph" /\ sectorMode = Null

\* The input handler of the slider (the event fires when the user moves the
\* slider to another value): setIndex, the date label, applySignalFilter.
PageSliderInput(idx) ==
    /\ listeners /\ BarVisible
    /\ idx # sliderValue
    /\ sliderValue' = idx
    /\ currentIdx' = idx
    /\ dom' = [dom EXCEPT !.label = Some(idx)]
    /\ hiddenSectors' = ApplySignalFilter(signalFilterActive, hiddenSectors, idx)
    /\ UNCHANGED sectorVars
    /\ UNCHANGED logVars
    /\ UNCHANGED <<signals, positions, screener, earlier>>
    /\ UNCHANGED <<timelineReady, timelinePlaying, timelineInterval, timers>>
    /\ UNCHANGED <<fetches, listeners, tradeData>>
    /\ UNCHANGED <<signalFilterActive, sectorMode, currentView, graph>>

\* The click handler of the play button.
PageTogglePlay ==
    /\ listeners /\ BarVisible
    /\ IF ~timelineReady
       THEN UNCHANGED <<timelinePlaying, timelineInterval, timers, sliderValue, currentIdx>>
       ELSE IF timelinePlaying
       THEN LET s == StopPlay(timelinePlaying, timelineInterval, timers)
            IN  /\ timelinePlaying' = s.playing
                /\ timelineInterval' = s.interval
                /\ timers' = s.armed
                /\ UNCHANGED <<sliderValue, currentIdx>>
       ELSE /\ timelinePlaying' = TRUE
            /\ IF AtEnd(sliderValue)
               THEN sliderValue' = 0 /\ currentIdx' = 0
               ELSE UNCHANGED <<sliderValue, currentIdx>>
            /\ timelineInterval' = Some(NewTimer(timers))
            /\ timers' = timers \cup {NewTimer(timers)}
    /\ UNCHANGED sectorVars
    /\ UNCHANGED logVars
    /\ UNCHANGED <<signals, positions, screener, earlier>>
    /\ UNCHANGED <<timelineReady, setupVars, filterVars, graph>>

\* The callback of the interval timer id fires.
PageTick(id) ==
    /\ id \in timers
    /\ IF AtEnd(sliderValue)
       THEN LET s == StopPlay(timelinePlaying, timelineInterval, timers)
            IN  /\ timelinePlaying' = s.playing
                /\ timelineInterval' = s.interval
                /\ timers' = s.armed
                /\ UNCHANGED <<sliderValue, currentIdx, dom, hiddenSectors>>
       ELSE /\ sliderValue' = sliderValue + 1
            /\ currentIdx' = sliderValue + 1
            /\ dom' = [dom EXCEPT !.label = Some(sliderValue + 1)]
            /\ hiddenSectors' =
                  ApplySignalFilter(signalFilterActive, hiddenSectors, sliderValue + 1)
            /\ UNCHANGED <<timelinePlaying, timelineInterval, timers>>
    /\ UNCHANGED sectorVars
    /\ UNCHANGED logVars
    /\ UNCHANGED <<signals, positions, screener, earlier>>
    /\ UNCHANGED <<timelineReady, fetches, listeners, tradeData>>
    /\ UNCHANGED <<signalFilterActive, sectorMode, currentView, graph>>

\* A click on a view button: nothing for the current view; the screener view
\* stops the playback.
ViewSwitch(view) ==
    /\ listeners /\ sectorMode = Null
    /\ IF view = currentView
       THEN UNCHANGED <<currentView, timelinePlaying, timelineInterval, timers>>
       ELSE /\ currentView' = view
            /\ IF view = "graph"
               THEN UNCHANGED <<timelinePlaying, timelineInterval, timers>>
               ELSE LET s == StopPlay(timelinePlaying, timelineInterval, timers)
                    IN  /\ timelinePlaying' = s.playing
                        /\ timelineInterval' = s.interval
                        /\ timers' = s.armed
    /\ UNCHANGED sectorVars
    /\ UNCHANGED logVars
    /\ UNCHANGED callVars
    /\ UNCHANGED <<timelineReady, sliderValue, setupVars>>
    /\ UNCHANGED <<signalFilterActive, hiddenSectors, sectorMode, graph>>

\* A click on a sector of the chart (_setupInteraction: only when the view is
\* active and not in sector mode): loadSectorData starts its fetch.
SectorClick(etf) ==
    /\ listeners /\ BarVisible
    /\ fetches' = [fetches EXCEPT !.pending = @ \cup {etf}]
    /\ UNCHANGED sectorVars
    /\ UNCHANGED logVars
    /\ UNCHANGED callVars
    /\ UNCHANGED <<playVars, dom, listeners, tradeData, filterVars, graph>>

\* The fetch of a sector file settles; with a file that holds stocks,
\* enterSectorMode: enterSector, the bars are swapped, stopPlay.
SectorDataArrives(etf, hasStocks) ==
    /\ etf \in fetches.pending
    /\ fetches' = [fetches EXCEPT !.pending = @ \ {etf}]
    /\ IF hasStocks
       THEN /\ sectorMode' = Some(etf)
            /\ LET s == StopPlay(timelinePlaying, timelineInterval, timers)
               IN  /\ timelinePlaying' = s.playing
                   /\ timelineInterval' = s.interval
                   /\ timers' = s.armed
       ELSE UNCHANGED <<sectorMode, timelinePlaying, timelineInterval, timers>>
    /\ UNCHANGED sectorVars
    /\ UNCHANGED logVars
    /\ UNCHANGED callVars
    /\ UNCHANGED <<timelineReady, sliderValue, dom, listeners, tradeData>>
    /\ UNCHANGED <<signalFilterActive, hiddenSectors, currentView, graph>>

\* The back button: exitSector, the bars are swapped back, applySignalFilter.
ExitSectorMode ==
    /\ listeners /\ sectorMode # Null
    /\ sectorMode' = Null
    /\ hiddenSectors' = ApplySignalFilter(signalFilterActive, hiddenSectors, currentIdx)
    /\ UNCHANGED sectorVars
    /\ UNCHANGED logVars
    /\ UNCHANGED callVars
    /\ UNCHANGED <<playVars, setupVars>>
    /\ UNCHANGED <<signalFilterActive, currentView, graph>>

\* The click handler of the signal chip: the filter is toggled; when on it is
\* applied, when off every sector is shown.
SignalChipClick ==
    /\ listeners /\ BarVisible
    /\ signalFilterActive' = ~signalFilterActive
    /\ hiddenSectors' = IF ~signalFilterActive
                        THEN ApplySignalFilter(TRUE, hiddenSectors, currentIdx)
                        ELSE {}
    /\ UNCHANGED sectorVars
    /\ UNCHANGED logVars
    /\ UNCHANGED callVars
    /\ UNCHANGED <<playVars, setupVars>>
    /\ UNCHANGED <<sectorMode, currentView, graph>>

\* The click handler of a sector chip: the signal filter goes off, the sector
\* is toggled.
SectorChipClick(etf) ==
    /\ listeners /\ BarVisible
    /\ signalFilterActive' = FALSE
    /\ hiddenSectors' = ToggleSector(hiddenSectors, etf)
    /\ UNCHANGED sectorVars
    /\ UNCHANGED logVars
    /\ UNCHANGED callVars
    /\ UNCHANGED <<playVars, setupVars>>
    /\ UNCHANGED <<sectorMode, currentView, graph>>

\* The click handler of the reset chip, which is on screen while a sector is
\* hidden: the signal filter goes off, every sector is shown.
ResetClick ==
    /\ listeners /\ BarVisible
    /\ hiddenSectors # {}
    /\ signalFilterActive' = FALSE
    /\ hiddenSectors' = {}
    /\ UNCHANGED sectorVars
    /\ UNCHANGED logVars
    /\ UNCHANGED callVars
    /\ UNCHANGED <<playVars, setupVars>>
    /\ UNCHANGED <<sectorMode, currentView, graph>>

NextPage ==
    \/ \E idx \in 0..(NDates - 1) : PageSliderInput(idx)
    \/ PageTogglePlay
    \/ \E id \in timers : PageTick(id)
    \/ \E view \in {"graph", "screener"} : ViewSwitch(view)
    \/ \E etf \in BookEtfs : SectorClick(etf)
    \/ \E etf \in BookEtfs, hasStocks \in BOOLEAN : SectorDataArrives(etf, hasStocks)
    \/ ExitSectorMode
    \/ SignalChipClick
    \/ \E etf \in BookEtfs : SectorChipClick(etf)
    \/ ResetClick
    \/ \E arrived \in SUBSET BookEtfs : currentView = "screener" /\ LoadAllStocks(arrived)

SpecPage == InitPage /\ [][NextPage]_vars

----------------------------------------------------------------------------
(* Properties of the playback timer *)

\* C27: after every handler (togglePlay, stopPlay, a timer tick, a view
\* switch, entering a sector), timelinePlaying is true exactly when
\* timelineInterval holds an armed timer, and at most one playback timer is
\* armed at any time, whatever the sequence of clicks and ticks.
C27_OneTimer ==
    /\ timelinePlaying <=> (timelineInterval # Null /\ Val(timelineInterval) \in timers)
    /\ Cardinality(timers) <= 1
    /\ timelineInterval = Null => timers = {}

\* The playback runs, part of the series played, while the fetch of a sector
\* file is in flight.
C27_Witness ==
    /\ timelinePlaying /\ Cardinality(timers) = 1
    /\ currentIdx > 0 /\ currentIdx < SliderMax
    /\ fetches.pending # {}


----------------------------------------------------------------------------
(* The playback left to itself *)

\* The user acts only while the playback is stopped; once it runs, only the
\* timer fires.
NextPlay ==
    \/ ~timelinePlaying /\ \E idx \in 0..(NDates - 1) : PageSliderInput(idx)
    \/ ~timelinePlaying /\ PageTogglePlay
    \/ ~timelinePlaying /\ SignalChipClick
    \/ \E id \in timers : PageTick(id)

\* An armed interval timer fires again and again: the tick is weakly fair.
SpecPlay ==
    InitPage /\ [][NextPlay]_vars /\ WF_vars(\E id \in timers : PageTick(id))

\* The playback has stopped at the last date with its timer cleared.
StoppedAtEnd ==
    /\ ~timelinePlaying
    /\ currentIdx = SliderMax /\ sliderValue = SliderMax
    /\ timers = {} /\ timelineInterval = Null

\* C28: once playback is started and no further user input occurs, the index
\* advances by exactly 1 per tick, never exceeds the last date index, and the
\* playback eventually stops by itself with the index at the last date and
\* the timer cleared; pressing play while the index is at the last date first
\* rewinds the index to 0.
C28_PlaybackEnds ==
    /\ [][(timelinePlaying /\ timelinePlaying') =>
             (currentIdx' = currentIdx + 1 /\ sliderValue' = currentIdx')]_vars
    /\ [](currentIdx <= SliderMax)
    /\ (timelinePlaying ~> StoppedAtEnd)
    /\ [][(~timelinePlaying /\ timelinePlaying') =>
             IF currentIdx = SliderMax
             THEN currentIdx' = 0 /\ sliderValue' = 0
             ELSE currentIdx' = currentIdx]_vars

\* The playback has carried the index to the last date and the timer is
\* still armed: the next tick stops it.
C28_Witness ==
    /\ timelinePlaying /\ timers # {}
    /\ currentIdx = SliderMax


----------------------------------------------------------------------------
(* Properties of the signal filter *)

\* The sectors for which _isSignalActif is false at index idx.
NotActifAt(idx) == { e \in DOMAIN data.sectors : ~IsSignalActif(e, idx) }

\* A handler has changed the timeline index, or has left sector mode.
IndexOrModeStep ==
    \/ currentIdx' # currentIdx
    \/ sectorMode # Null /\ sectorMode' = Null

\* A sector chip has been toggled by hand or the reset chip pressed: the
\* hidden set changes while index and sector mode stay.
ChipStep ==
    /\ hiddenSectors' # hiddenSectors
    /\ currentIdx' = currentIdx /\ sectorMode' = sectorMode
    /\ signalFilterActive

\* C29: while the signal filter is active, after every handler that changes
\* the timeline index (slider input, playback tick, rewind to 0 on play) or
\* leaves sector mode, the set of hidden sectors is exactly the set of
\* sectors for which _isSignalActif is false at the current index; toggling
\* a sector chip by hand or pressing reset turns the signal filter off.
C29_FilterFollowsIndex ==
    [][/\ (signalFilterActive' /\ IndexOrModeStep) =>
              hiddenSectors' = NotActifAt(currentIdx')
       /\ ChipStep => ~signalFilterActive']_vars

\* The same, with the rewind of togglePlay set aside.
C29_FollowsButRewind ==
    [][/\ (signalFilterActive' /\ IndexOrModeStep /\ ~(timelinePlaying' /\ ~timelinePlaying)) =>
              hiddenSectors' = NotActifAt(currentIdx')
       /\ ChipStep => ~signalFilterActive']_vars


----------------------------------------------------------------------------
(* The page of the RotationGraph: global view, zoom into a sector and back *)

\* The cameras of the model: d3.zoomIdentity and one the user has panned to.
Cameras == {"identity", "panned"}

\* The fetches of a sector file one sector may have in flight at a time.
MaxRequests == 2

\* The RotationGraph after its constructor, the page after init: global
\* mode, the identity camera, no sector, no request in flight.  leftCamera
\* remembers the camera the global view had when it was last left.
NewGraph ==
    [mode |-> "global",
     transform |-> "identity",
     savedTransform |-> Null,
     sectorData |-> Null,
     activeSectorNode |-> Null,
     activeSectorEtf |-> Null,
     currentMode |-> "global",
     requests |-> [e \in BookEtfs |-> 0],
     exitTimer |-> FALSE,
     leftCamera |-> "identity"]

InitGraph ==
    /\ history = NoData
    /\ data = NoData
    /\ pc = "new"
    /\ scan = NoScan
    /\ tradeStates = <<>>
    /\ query = NoQuery
    /\ stockFiles = <<>>
    /\ allStockHistories = <<>>
    /\ tradeLog = <<>>
    /\ tradeLogReady = FALSE
    /\ logScan = NoLogScan
    /\ currentIdx = 0
    /\ signals = NoSignals
    /\ positions = Null
    /\ screener = NoScreener
    /\ earlier = Null
    /\ timelineReady = FALSE
    /\ timelinePlaying = FALSE
    /\ timelineInterval = Null
    /\ timers = {}
    /\ sliderValue = 0
    /\ dom = NoViews
    /\ fetches = NoFetches
    /\ listeners = FALSE
    /\ tradeData = Null
    /\ signalFilterActive = FALSE
    /\ hiddenSectors = {}
    /\ sectorMode = Null
    /\ currentView = "graph"
    /\ graph = NewGraph

\* Every variable but graph.
notGraphVars ==
    <<sectorVars, logVars, callVars, playVars, setupVars, filterVars>>

\* The camera the global view is left with, when this step leaves it.
LeftWith(g, mode) ==
    IF g.mode = "global" /\ mode # "global" THEN g.transform ELSE g.leftCamera

\* A zoomToSector that acts in mode "global" only.
ZoomToSector_GlobalOnly(g, etf) ==
    IF g.mode # "global" THEN g
    ELSE [g EXCEPT !.activeSectorNode = Some(etf),
                   !.activeSectorEtf = Some(etf),
                   !.sectorData = Some(etf),
                   !.savedTransform = Some(g.transform),
                   !.mode = "zoom-in",
                   !.leftCamera = LeftWith(g, "zoom-in")]

\* zoomToSector(sectorNode, sectorData): the sector, the saved camera, and
\* mode = "zoom-in"; the mode it is called in is not looked at.
ZoomToSector(g, etf) ==
    [g EXCEPT !.activeSectorNode = Some(etf),
              !.activeSectorEtf = Some(etf),
              !.sectorData = Some(etf),
              !.savedTransform = Some(g.transform),
              !.mode = "zoom-in",
              !.leftCamera = LeftWith(g, "zoom-in")]

\* zoomToGlobal(): nothing in mode "zoom-out", else mode = "zoom-out".
ZoomToGlobal(g) ==
    IF g.mode = "zoom-out" THEN g
    ELSE [g EXCEPT !.mode = "zoom-out", !.leftCamera = LeftWith(g, "zoom-out")]

\* The zoom handler of d3 (the user pans or zooms): the camera follows in
\* the modes "global" and "sector" only.
ZoomEvent(cam) ==
    /\ graph # NoGraph
    /\ graph.mode \in {"global", "sector"}
    /\ cam # graph.transform
    /\ graph' = [graph EXCEPT !.transform = cam]
    /\ UNCHANGED notGraphVars

\* pointerup on a sector node in mode "global": after 10 ms onSectorRequest
\* calls enterSector, which fetches the sector file.
ClickNode(etf) ==
    /\ graph # NoGraph
    /\ graph.mode = "global"
    /\ graph.requests[etf] < MaxRequests
    /\ graph' = [graph EXCEPT !.requests[etf] = @ + 1]
    /\ UNCHANGED notGraphVars

\* The fetch of enterSector settles: on an error nothing more; with the file,
\* currentMode = "sector" and zoomToSector.
SectorFetched(etf, ok) ==
    /\ graph # NoGraph
    /\ graph.requests[etf] > 0
    /\ LET g == [graph EXCEPT !.requests[etf] = @ - 1]
       IN  graph' = IF ok THEN ZoomToSector([g EXCEPT !.currentMode = "sector"], etf)
                    ELSE g
    /\ UNCHANGED notGraphVars

\* pointerup outside the bubble in mode "sector": zoomToGlobal in 10 ms.
ClickOutside ==
    /\ graph # NoGraph
    /\ graph.mode = "sector"
    /\ ~graph.exitTimer
    /\ graph' = [graph EXCEPT !.exitTimer = TRUE]
    /\ UNCHANGED notGraphVars

\* The timer of the click outside fires: zoomToGlobal().
ExitTimerFires ==
    /\ graph # NoGraph
    /\ graph.exitTimer
    /\ graph' = ZoomToGlobal([graph EXCEPT !.exitTimer = FALSE])
    /\ UNCHANGED notGraphVars

\* The frame of _animateZoomIn with t >= 1: mode = "sector", the identity
\* camera.
ZoomInCompletes ==
    /\ graph # NoGraph
    /\ graph.mode = "zoom-in"
    /\ graph' = [graph EXCEPT !.mode = "sector", !.transform = "identity"]
    /\ UNCHANGED notGraphVars

\* The frame of _animateZoomOut with t >= 1: mode = "global", the saved
\* camera is restored, the sector is cleared, onSectorExit.
ZoomOutCompletes ==
    /\ graph # NoGraph
    /\ graph.mode = "zoom-out"
    /\ graph' = [graph EXCEPT !.mode = "global",
                              !.transform = IF graph.savedTransform # Null
                                            THEN Val(graph.savedTransform)
                                            ELSE "identity",
                              !.sectorData = Null,
                              !.activeSectorNode = Null,
                              !.activeSectorEtf = Null,
                              !.currentMode = "global"]
    /\ UNCHANGED notGraphVars

NextGraph ==
    \/ \E cam \in Cameras : ZoomEvent(cam)
    \/ \E etf \in BookEtfs : ClickNode(etf)
    \/ \E etf \in BookEtfs, ok \in BOOLEAN : SectorFetched(etf, ok)
    \/ ClickOutside
    \/ ExitTimerFires
    \/ ZoomInCompletes
    \/ ZoomOutCompletes

SpecGraph == InitGraph /\ [][NextGraph]_vars

----------------------------------------------------------------------------
(* Properties of the modes of the RotationGraph *)

\* The changes of mode of the life cycle (switchSector goes from "sector" to
\* "sector", which is no change).
ModeChanges ==
    { <<"global", "zoom-in">>, <<"zoom-in", "sector">>,
      <<"sector", "zoom-out">>, <<"zoom-out", "global">> }

\* zoomToSector has taken effect: the graph is in mode "zoom-in" with a new
\* mode, sector or saved camera.
ZoomToSectorActed ==
    /\ graph'.mode = "zoom-in"
    /\ \/ graph.mode # "zoom-in"
       \/ graph'.activeSectorEtf # graph.activeSectorEtf
       \/ graph'.savedTransform # graph.savedTransform

\* C30: under every interleaving of clicks, sector fetches and animation
\* frames, RotationGraph.mode changes only along global -> zoom-in, zoom-in
\* -> sector, sector -> sector, sector -> zoom-out and zoom-out -> global;
\* zoomToSector takes effect only in global mode, and when a zoom-out
\* completes the restored camera is the one the global view had when it was
\* left, with sectorData, activeSectorNode and activeSectorEtf cleared.
C30_ModeCycle ==
    [][/\ graph'.mode # graph.mode => <<graph.mode, graph'.mode>> \in ModeChanges
       /\ ZoomToSectorActed => graph.mode = "global"
       /\ (graph.mode = "zoom-out" /\ graph'.mode = "global") =>
              /\ graph'.transform = graph.leftCamera
              /\ graph'.sectorData = Null
              /\ graph'.activeSectorNode = Null
              /\ graph'.activeSectorEtf = Null]_vars

====
